---- MODULE Spec2Model ----
(***************************************************************************)
(* vm-spawner, KVM back end: deploy_vm (kvm/deploy_vm.py) and delete_vm    *)
(* (kvm/destroy.py) driving a remote libvirt daemon, together with the     *)
(* provisioning steps of kvm/create.py, kvm/install.py and kvm/network.py. *)
(*                                                                         *)
(* The hypervisor (storage pool, volumes, domains, DHCP leases, remote     *)
(* scratch files) is the shared state.  Every libvirt call and every       *)
(* remote command is one atomic step whose outcome (success, or one of the *)
(* failures the code handles) is chosen nondeterministically.              *)
(***************************************************************************)
EXTENDS Integers, Sequences, FiniteSets, TLC

\* ---------------------------------------------------------------- bounds
\* Calls (deploy or destroy) issued in one behaviour.
MaxCalls == 2
\* Longest remote destination path handed to upload(), in components.
MaxDepth == 3
\* Number of chunks of the local base image (file size = FileChunks * ChunkLen).
FileChunks == 2
\* Polling attempts of get_domain_ip_from_network (default 60 in the source).
Retries == 2

\* Bytes in one chunk handed to stream.send (1 MiB in the source, scaled).
ChunkLen == 2

Procs == {1, 2}
\* The callers that run in the sequential specification.
SeqProcs == {1}

DomNames == {"d1", "d2"}
\* The domain the deploy calls are for; d2 is only ever destroyed.
Deployed == {"d1"}
Formats == {"qcow2", "iso"}
BaseVol == "base"
DataVol == "data"
DiskName(d) == IF d = "d1" THEN "d1.qcow2" ELSE "d2.qcow2"
VolNames == {BaseVol, DataVol} \cup {DiskName(d) : d \in DomNames}

NoVol == [file |-> "none", reg |-> FALSE, gen |-> 0, fresh |-> FALSE, backing |-> "none"]
ReadyVol(g) == [file |-> "complete", reg |-> TRUE, gen |-> g, fresh |-> TRUE, backing |-> "none"]
NoDom == [st |-> "absent", disks |-> << >>, by |-> "none"]
\* One <disk> element of a domain descriptor: device kind, how its source is
\* named (pool/volume attributes, a file path, or neither), and the volume.
Disk(dev, src, v) == [dev |-> dev, src |-> src, vol |-> v]
\* A domain that was not created by this program, with two data disks.
ForeignDisks == << Disk("disk", "vol", DiskName("d2")), Disk("disk", "file", DataVol) >>

NoExc == [type |-> "none", stage |-> "none"]
Exc(t, s) == [type |-> t, stage |-> s]
Op(o, a, r) == [op |-> o, arg |-> a, res |-> r]
NoOut == [res |-> "none", exc |-> NoExc, ip |-> "none"]

NoLv == [definedPool |-> FALSE, poolRet |-> 0, poolFound |-> FALSE,
         createdVol |-> FALSE, stream |-> FALSE, sent |-> 0, stored |-> 0,
         baseRet |-> 0, baseFound |-> FALSE, diskMade |-> FALSE, diskRet |-> "none",
         uploaded |-> {}, attempt |-> 0, ip |-> "none",
         prevPool |-> 0, prevBase |-> 0, prevIp |-> "none",
         refs |-> << >>, todel |-> << >>, i |-> 1, lookup |-> "none",
         again |-> FALSE, afterFailed |-> FALSE]
NoCall == [kind |-> "none", name |-> "d1", fmt |-> "qcow2"]

VARIABLES
    pool,      \* the storage pool of cfg.pool_name: [st, gen, auto]
    vol,       \* VolNames -> volume record
    dom,       \* DomNames -> domain record
    lease,     \* DomNames -> whether the DHCP lease table holds the domain's lease
    scratch,   \* DomNames -> cloud-init files present in the remote scratch directory
    nextGen,   \* identities handed out so far (pools and base volumes created)
    pc,        \* Procs -> position of the caller
    call,      \* Procs -> the call in progress (kind, domain name, image format)
    conn,      \* Procs -> the local variable conn: "none", "open", "closed"
    sess,      \* Procs -> hypervisor connections this call opened and has not closed
    closes,    \* Procs -> number of conn.close() calls made by this call
    lv,        \* Procs -> the other local variables of the call
    exc,       \* Procs -> the exception in flight
    ops,       \* Procs -> the side-effecting/remote operations of this call, in order
    out,       \* Procs -> outcome of the last finished call
    snap,      \* Procs -> hypervisor state when the call started
    ncalls,    \* calls started so far
    lastPool,  \* identity of the pool returned by the last get_or_create_pool that returned
    lastBase,  \* identity of the volume returned by the last ensure_volume_from_file that returned
    up,        \* a call of upload() on its own: arguments, position, remote destination
    dl,        \* a call of download_file() on its own: arguments, position, local files
    net,       \* a call of get_domain_ip_from_network() on its own
    rem,       \* a call of run_remote_command() on its own
    auto,      \* the call of deploy_vm_auto() around a deploy_vm call
    inst       \* what one deploy_vm call derives from its configuration

hv == << pool, vol, dom, lease, scratch, nextGen >>
cvars == << conn, sess, closes >>
meta == << call, out, snap, ncalls >>
hist == << lastPool, lastBase >>
files == << up, dl, net, rem, auto, inst >>
dvars == << pool, vol, dom, lease, scratch, nextGen, pc, call, conn, sess, closes,
            lv, exc, ops, out, snap, ncalls, lastPool, lastBase >>
vars == << dvars, files >>

\* No call of upload() / download_file() on its own is under way.
NoUpload == [pc |-> "off"]
NoFetch == [pc |-> "off"]
NoResolve == [pc |-> "off"]
NoRemote == [pc |-> "off"]
NoAuto == [pc |-> "off"]
NoPlan == [pc |-> "off"]

\* ------------------------------------------------------------ initial state
\* The hypervisor before the first call: the pool may be absent, inactive or
\* active; the base volume may already be uploaded; a foreign domain d2 with
\* two data disks may exist.
InitPools == { [st |-> "absent", gen |-> 0, auto |-> FALSE],
               [st |-> "inactive", gen |-> 1, auto |-> TRUE],
               [st |-> "active", gen |-> 1, auto |-> TRUE] }

DeployInit ==
    /\ pool \in InitPools
    /\ \E hasBase \in BOOLEAN, foreign \in {"absent", "shutoff", "running"} :
         /\ (pool.st = "absent") => (~hasBase /\ foreign = "absent")
         /\ (pool.st = "inactive") => (foreign = "absent")
         /\ vol = [v \in VolNames |->
                     IF v = BaseVol /\ hasBase THEN ReadyVol(2)
                     ELSE IF v \in {DiskName("d2"), DataVol} /\ foreign # "absent"
                          THEN ReadyVol(1)
                          ELSE NoVol]
         /\ dom = [d \in DomNames |->
                     IF d = "d2" /\ foreign # "absent"
                     THEN [st |-> foreign, disks |-> ForeignDisks, by |-> "foreign"]
                     ELSE NoDom]
    /\ lease = [d \in DomNames |-> FALSE]
    /\ scratch = [d \in DomNames |-> {}]
    /\ nextGen = 3
    /\ pc = [p \in Procs |-> "idle"]
    /\ call = [p \in Procs |-> NoCall]
    /\ conn = [p \in Procs |-> "none"]
    /\ sess = [p \in Procs |-> 0]
    /\ closes = [p \in Procs |-> 0]
    /\ lv = [p \in Procs |-> NoLv]
    /\ exc = [p \in Procs |-> NoExc]
    /\ ops = [p \in Procs |-> << >>]
    /\ out = [p \in Procs |-> NoOut]
    /\ snap = [p \in Procs |-> << >>]
    /\ ncalls = 0
    /\ lastPool = 0
    /\ lastBase = 0

Init ==
    /\ DeployInit
    /\ up = NoUpload /\ dl = NoFetch /\ net = NoResolve /\ rem = NoRemote /\ auto = NoAuto /\ inst = NoPlan

\* ------------------------------------------------------------------ helpers
Goto(p, l) == pc' = [pc EXCEPT ![p] = l]
\* Operation o on a was issued and the environment answered r.
Log(p, o, a, r) == ops' = [ops EXCEPT ![p] = Append(@, Op(o, a, r))]
\* An exception leaves the try block of deploy_vm / delete_vm: the except
\* clause re-raises it and the finally clause runs next.
Raise(p, t, s) == /\ exc' = [exc EXCEPT ![p] = Exc(t, s)]
                  /\ Goto(p, "finally")
Name(p) == call[p].name
IsIso(p) == call[p].fmt = "iso"
\* Outcomes of an operation that can succeed only when `possible`.
Outcomes(possible) == IF possible THEN {"ok", "err"} ELSE {"err"}
\* Answers of a lookup: what the hypervisor holds, or a failure of the call.
Answers(exists) == {IF exists THEN "found" ELSE "absent", "err"}

\* ------------------------------------------------------------- call entry
\* Whether call c is issued right after the same call (a destroy of the
\* same domain, a deploy of the same name and base image format) returned
\* success.
Repeats(p, c) ==
    /\ c.kind = call[p].kind
    /\ c.name = call[p].name /\ c.fmt = call[p].fmt
    /\ out[p].res = "ok"

\* Whether call c is a destroy issued right after a deploy of the same
\* domain raised.
FollowsFailedDeploy(p, c) ==
    /\ c.kind = "destroy" /\ call[p].kind = "deploy"
    /\ c.name = call[p].name
    /\ out[p].res = "err"

StartCall(p, c) ==
    /\ pc[p] = "idle"
    /\ ncalls' = ncalls + 1
    /\ call' = [call EXCEPT ![p] = c]
    /\ snap' = [snap EXCEPT ![p] = hv]
    /\ conn' = [conn EXCEPT ![p] = "none"]
    /\ sess' = [sess EXCEPT ![p] = 0]
    /\ closes' = [closes EXCEPT ![p] = 0]
    /\ lv' = [lv EXCEPT ![p] = [NoLv EXCEPT !.again = Repeats(p, c),
                                           !.afterFailed = FollowsFailedDeploy(p, c),
                                           !.prevIp = IF Repeats(p, c) THEN out[p].ip
                                                      ELSE "none"]]
    /\ exc' = [exc EXCEPT ![p] = NoExc]
    /\ ops' = [ops EXCEPT ![p] = << >>]
    /\ out' = [out EXCEPT ![p] = NoOut]
    /\ Goto(p, "connect")
    /\ UNCHANGED << hv, hist >>
    /\ UNCHANGED files

\* A call of the caller that issues up to MaxCalls calls.
BeginCall(p, c) ==
    /\ ncalls < MaxCalls
    /\ StartCall(p, c)

\* deploy_vm(cfg, ssh_key): a new call for domain d with base image format f.
deploy_vm_begin(p, d, f) ==
    BeginCall(p, [kind |-> "deploy", name |-> d, fmt |-> f])

\* delete_vm(host, domain_name, ssh_key): a new call for domain d.
delete_vm_begin(p, d) ==
    BeginCall(p, [kind |-> "destroy", name |-> d, fmt |-> "qcow2"])

\* ---------------------------------------------------------------- connect
\* What the caller's variable conn holds after connect_libvirt when
\* libvirt.open succeeded and the hostname/version query did or did not.
ConnAfterOpen(queryOk) == IF queryOk THEN "open" ELSE "none"
\* Where a call goes after a successful connect.
AfterConnect(p) == IF call[p].kind = "deploy" THEN "pool_lookup" ELSE "x_lookup"

\* connect_libvirt(uri): libvirt.open, then conn.getHostname()/getLibVersion()
\* for the log line; a libvirtError of either is re-raised and the caller's
\* conn stays None.
connect_libvirt(p) ==
    /\ pc[p] = "connect"
    /\ \E r \in {"ok", "open_fails", "query_fails"} :
         /\ Log(p, "connect", "", r)
         /\ sess' = [sess EXCEPT ![p] = IF r = "open_fails" THEN 0 ELSE 1]
         /\ conn' = [conn EXCEPT ![p] =
                       IF r = "open_fails" THEN "none" ELSE ConnAfterOpen(r = "ok")]
         /\ IF r = "ok"
            THEN Goto(p, AfterConnect(p)) /\ UNCHANGED exc
            ELSE Raise(p, "libvirtError", "connect")
    /\ UNCHANGED << hv, closes, lv, meta, hist >>
    /\ UNCHANGED files

\* ------------------------------------------------------ get_or_create_pool
\* get_or_create_pool returns the pool of identity g.
PoolReturn(p, g, found) ==
    /\ lv' = [lv EXCEPT ![p].poolRet = g, ![p].prevPool = lastPool,
                        ![p].poolFound = found]
    /\ lastPool' = g
    /\ Goto(p, "vol_lookup")
    /\ UNCHANGED exc

\* Faulty variant of PoolFoundNext: a pool that was found is returned without
\* looking at isActive().
PoolFoundNext_trusting(active) == "return"

\* Where get_or_create_pool continues after storagePoolLookupByName found
\* the pool (create.py 64-70): return it when active, else activate it.
PoolFoundNext(active) == IF active THEN "return" ELSE "pool_activate"

\* conn.storagePoolLookupByName(name) and pool.isActive().
get_or_create_pool_lookup(p) ==
    /\ pc[p] = "pool_lookup"
    /\ \E r \in Answers(pool.st # "absent") :
         /\ Log(p, "pool.lookup", "", r)
         /\ IF r = "err"
            THEN Raise(p, "RuntimeError", "pool") /\ UNCHANGED << lv, lastPool >>
            ELSE IF r = "absent"
            THEN Goto(p, "pool_gid") /\ UNCHANGED << exc, lv, lastPool >>
            ELSE IF PoolFoundNext(pool.st = "active") = "return"
            THEN PoolReturn(p, pool.gen, TRUE)
            ELSE /\ lv' = [lv EXCEPT ![p].poolFound = TRUE]
                 /\ Goto(p, PoolFoundNext(pool.st = "active"))
                 /\ UNCHANGED << exc, lastPool >>
    /\ UNCHANGED << hv, cvars, meta, lastBase >>
    /\ UNCHANGED files

\* pool.create(0) on the pool that was found inactive; a libvirtError lands
\* in the except clause of the lookup and becomes a RuntimeError.
get_or_create_pool_activate(p) ==
    /\ pc[p] = "pool_activate"
    /\ \E r \in Outcomes(pool.st = "inactive") :
         /\ Log(p, "pool.activate", "", r)
         /\ IF r = "ok"
            THEN /\ pool' = [pool EXCEPT !.st = "active"]
                 /\ PoolReturn(p, pool.gen, TRUE)
            ELSE /\ Raise(p, "RuntimeError", "pool")
                 /\ UNCHANGED << pool, lv, lastPool >>
    /\ UNCHANGED << vol, dom, lease, scratch, nextGen, cvars, meta, lastBase >>
    /\ UNCHANGED files

\* get_group_id(host, ssh_key): run_remote_command(["id", "-g"]); its
\* RemoteCommandError propagates before anything is defined.
get_or_create_pool_gid(p) ==
    /\ pc[p] = "pool_gid"
    /\ \E r \in {"ok", "err"} :
         /\ Log(p, "pool.gid", "", r)
         /\ IF r = "ok"
            THEN Goto(p, "pool_define") /\ UNCHANGED exc
            ELSE Raise(p, "RemoteCommandError", "pool")
    /\ UNCHANGED << hv, cvars, lv, meta, hist >>
    /\ UNCHANGED files

\* Faulty variant of PoolDefineFailNext: the cleanup undefines the pool of
\* that name whether or not this call defined it.
PoolDefineFailNext_unguarded(defined) == "pool_undefine"

\* Where the creation path goes when storagePoolDefineXML raises (create.py
\* 124-135): "if defined_pool:" guards the undefine, and defined_pool is
\* still None, so the RuntimeError is raised at once.
PoolDefineFailNext(defined) == IF defined THEN "pool_undefine" ELSE "raise"

\* conn.storagePoolDefineXML(xml, 0); defining a name that is already
\* defined fails.  With defined_pool still None the except clause has
\* nothing to undefine and raises RuntimeError.
get_or_create_pool_define(p) ==
    /\ pc[p] = "pool_define"
    /\ \E r \in Outcomes(pool.st = "absent") :
         /\ Log(p, "pool.define", "", r)
         /\ IF r = "ok"
            THEN /\ pool' = [st |-> "inactive", gen |-> nextGen, auto |-> FALSE]
                 /\ nextGen' = nextGen + 1
                 /\ lv' = [lv EXCEPT ![p].definedPool = TRUE]
                 /\ Goto(p, "pool_build")
                 /\ UNCHANGED exc
            ELSE /\ IF PoolDefineFailNext(lv[p].definedPool) = "raise"
                    THEN Raise(p, "RuntimeError", "pool")
                    ELSE Goto(p, "pool_undefine") /\ UNCHANGED exc
                 /\ UNCHANGED << pool, nextGen, lv >>
    /\ UNCHANGED << vol, dom, lease, scratch, cvars, meta, hist >>
    /\ UNCHANGED files

\* Where the creation path goes after defined_pool.build(0) (create.py
\* 102-113): a libvirtError of build is logged as a warning only.
PoolBuildNext(ok) == "pool_autostart"

\* defined_pool.build(0).
get_or_create_pool_build(p) ==
    /\ pc[p] = "pool_build"
    /\ \E r \in {"ok", "err"} :
         /\ Log(p, "pool.build", "", r)
         /\ Goto(p, PoolBuildNext(r = "ok"))
    /\ UNCHANGED << hv, cvars, lv, exc, meta, hist >>
    /\ UNCHANGED files

\* Where the creation path goes when setAutostart or create raises
\* (create.py 124-133): to the undefine of the pool it defined.
PoolCreateFailNext == "pool_undefine"

\* defined_pool.setAutostart(1).
get_or_create_pool_autostart(p) ==
    /\ pc[p] = "pool_autostart"
    /\ \E r \in Outcomes(pool.st # "absent") :
         /\ Log(p, "pool.autostart", "", r)
         /\ IF r = "ok"
            THEN /\ pool' = [pool EXCEPT !.auto = TRUE]
                 /\ Goto(p, "pool_create")
            ELSE /\ Goto(p, PoolCreateFailNext)
                 /\ UNCHANGED pool
    /\ UNCHANGED << vol, dom, lease, scratch, nextGen, cvars, lv, exc, meta, hist >>
    /\ UNCHANGED files

\* defined_pool.create(0) on the newly defined pool.
get_or_create_pool_create(p) ==
    /\ pc[p] = "pool_create"
    /\ \E r \in Outcomes(pool.st = "inactive") :
         /\ Log(p, "pool.create", "", r)
         /\ IF r = "ok"
            THEN /\ pool' = [pool EXCEPT !.st = "active"]
                 /\ PoolReturn(p, pool.gen, FALSE)
            ELSE /\ Goto(p, PoolCreateFailNext)
                 /\ UNCHANGED << pool, lv, exc, lastPool >>
    /\ UNCHANGED << vol, dom, lease, scratch, nextGen, cvars, meta, lastBase >>
    /\ UNCHANGED files

\* Faulty variant of PoolFailure: a failed undefine replaces the error.
PoolFailure_masking(undefineOk) ==
    IF undefineOk THEN Exc("RuntimeError", "pool") ELSE Exc("libvirtError", "pool")

\* The error get_or_create_pool raises after the cleanup attempt, whether
\* the undefine succeeded or raised (contextlib.suppress, create.py 130-135).
PoolFailure(undefineOk) == Exc("RuntimeError", "pool")

\* except libvirtError as create_e: defined_pool.undefine() under
\* contextlib.suppress, then raise RuntimeError from create_e.
get_or_create_pool_undefine(p) ==
    /\ pc[p] = "pool_undefine"
    /\ \E r \in Outcomes(pool.st = "inactive") :
         /\ Log(p, "pool.undefine", "", r)
         /\ IF r = "ok"
            THEN pool' = [st |-> "absent", gen |-> 0, auto |-> FALSE]
            ELSE UNCHANGED pool
         /\ exc' = [exc EXCEPT ![p] = PoolFailure(r = "ok")]
    /\ Goto(p, "finally")
    /\ UNCHANGED << vol, dom, lease, scratch, nextGen, cvars, lv, meta, hist >>
    /\ UNCHANGED files

\* ------------------------------------------------- ensure_volume_from_file
FileSize == FileChunks * ChunkLen

\* ensure_volume_from_file returns the volume of identity g.
VolReturn(p, g, found) ==
    /\ lv' = [lv EXCEPT ![p].baseRet = g, ![p].prevBase = lastBase,
                        ![p].baseFound = found]
    /\ lastBase' = g
    /\ Goto(p, "disk_probe")
    /\ UNCHANGED exc

\* Whether storageVolLookupByName / storageVolLookupByPath finds volume v:
\* the pool is running and knows the volume.
VolKnown(v) == pool.st = "active" /\ vol[v].reg

\* Faulty variant of BaseLookupNext: the image is fetched and uploaded even
\* when the volume exists.
BaseLookupNext_always(found) == "vol_download"

\* Where ensure_volume_from_file continues after the lookup (create.py
\* 169-183): an existing volume is returned as it is.
BaseLookupNext(found) == IF found THEN "return" ELSE "vol_download"

\* pool.storageVolLookupByName(vol_name).
ensure_volume_lookup(p) ==
    /\ pc[p] = "vol_lookup"
    /\ \E r \in Answers(VolKnown(BaseVol)) :
         /\ Log(p, "vol.lookup", BaseVol, r)
         /\ IF r = "err"
            THEN Raise(p, "RuntimeError", "volume") /\ UNCHANGED << lv, lastBase >>
            ELSE IF BaseLookupNext(r = "found") = "return"
            THEN VolReturn(p, vol[BaseVol].gen, TRUE)
            ELSE /\ Goto(p, BaseLookupNext(r = "found"))
                 /\ UNCHANGED << exc, lv, lastBase >>
    /\ UNCHANGED << hv, cvars, meta, lastPool >>
    /\ UNCHANGED files

\* download_file(base_image_url, source_file, checksum) and the is_file
\* check; their exceptions propagate unchanged.
ensure_volume_download(p) ==
    /\ pc[p] = "vol_download"
    /\ \E r \in {"ok", "err"} :
         /\ Log(p, "download_file", "", r)
         /\ IF r = "ok"
            THEN Goto(p, "vol_gid") /\ UNCHANGED exc
            ELSE Raise(p, "DownloadError", "volume")
    /\ UNCHANGED << hv, cvars, lv, meta, hist >>
    /\ UNCHANGED files

\* source_file.stat() and get_group_id(host, ssh_key) inside the try block.
ensure_volume_gid(p) ==
    /\ pc[p] = "vol_gid"
    /\ \E r \in {"ok", "err"} :
         /\ Log(p, "vol.gid", "", r)
         /\ Goto(p, IF r = "ok" THEN "vol_createXML" ELSE "vol_cleanup")
    /\ UNCHANGED << hv, cvars, lv, exc, meta, hist >>
    /\ UNCHANGED files

\* pool.createXML(vol_xml_desc, 0): the volume is allocated with the
\* capacity of the local file and no content yet.
ensure_volume_createXML(p) ==
    /\ pc[p] = "vol_createXML"
    /\ \E r \in Outcomes(pool.st = "active" /\ vol[BaseVol].file = "none") :
         /\ Log(p, "vol.createXML", BaseVol, r)
         /\ IF r = "ok"
            THEN /\ vol' = [vol EXCEPT ![BaseVol] =
                              [file |-> "partial", reg |-> TRUE, gen |-> nextGen,
                               fresh |-> FALSE, backing |-> "none"]]
                 /\ nextGen' = nextGen + 1
                 /\ lv' = [lv EXCEPT ![p].createdVol = TRUE]
                 /\ Goto(p, "vol_upload")
            ELSE /\ Goto(p, "vol_cleanup")
                 /\ UNCHANGED << vol, nextGen, lv >>
    /\ UNCHANGED << pool, dom, lease, scratch, cvars, exc, meta, hist >>
    /\ UNCHANGED files

\* conn.newStream(0) and created_vol.upload(stream, 0, file_size_bytes, 0).
ensure_volume_upload(p) ==
    /\ pc[p] = "vol_upload"
    /\ \E r \in {"ok", "newStream_fails", "upload_fails"} :
         /\ Log(p, "vol.upload", BaseVol, r)
         /\ lv' = [lv EXCEPT ![p].stream = (r # "newStream_fails")]
         /\ Goto(p, IF r = "ok" THEN "vol_send" ELSE "vol_cleanup")
    /\ UNCHANGED << hv, cvars, exc, meta, hist >>
    /\ UNCHANGED files

\* Bytes of a chunk that reach the volume when stream.send returns `ret`
\* for it (the number of bytes accepted, which may be fewer than offered).
Accepted(ret) == ret

\* One iteration of the upload loop (create.py 241-267): f.read(1 MiB) and
\* stream.send(chunk).  send may accept the whole chunk, accept fewer bytes,
\* return -1 or raise; only -1 and an exception leave the loop, and the
\* next chunk is read whatever number of bytes was accepted.
ensure_volume_send(p) ==
    /\ pc[p] = "vol_send"
    /\ lv[p].sent < FileChunks
    /\ \E r \in {"full", "short", "minus1", "err"} :
         /\ Log(p, "stream.send", BaseVol, r)
         /\ IF r \in {"full", "short"}
            THEN \E ret \in (IF r = "full" THEN {ChunkLen} ELSE 1 .. (ChunkLen - 1)) :
                   /\ lv' = [lv EXCEPT ![p].sent = @ + 1,
                                       ![p].stored = @ + Accepted(ret)]
                   /\ Goto(p, IF lv[p].sent + 1 = FileChunks
                              THEN "vol_finish" ELSE "vol_send")
            ELSE /\ Goto(p, "vol_cleanup")
                 /\ UNCHANGED lv
    /\ UNCHANGED << hv, cvars, exc, meta, hist >>
    /\ UNCHANGED files

\* State of the volume's file once the stream is finished with `stored`
\* bytes of the FileSize bytes of the image accepted.
FileAfterFinish(stored) == IF stored = FileSize THEN "complete" ELSE "partial"

\* stream.finish(): -1 or a libvirtError goes to the cleanup.
ensure_volume_finish(p) ==
    /\ pc[p] = "vol_finish"
    /\ \E r \in Outcomes(vol[BaseVol].file # "none") \cup {"minus1"} :
         /\ Log(p, "stream.finish", BaseVol, r)
         /\ IF r = "ok"
            THEN /\ vol' = [vol EXCEPT ![BaseVol].file = FileAfterFinish(lv[p].stored)]
                 /\ VolReturn(p, vol[BaseVol].gen, FALSE)
            ELSE /\ Goto(p, "vol_cleanup")
                 /\ UNCHANGED << vol, lv, exc, lastBase >>
    /\ UNCHANGED << pool, dom, lease, scratch, nextGen, cvars, meta, lastPool >>
    /\ UNCHANGED files

\* Faulty variant of CleanupDeletes: the volume that was defined is left
\* behind when the upload fails.
CleanupDeletes_never(created) == FALSE

\* Whether the except clause deletes the volume (create.py 303-308):
\* `if created_vol:`.
CleanupDeletes(created) == created

\* The except clauses of create.py 297-322: stream.abort() when the stream
\* was opened and created_vol.delete(0) when the volume was defined, each
\* under contextlib.suppress, then RuntimeError.
ensure_volume_cleanup(p) ==
    /\ pc[p] = "vol_cleanup"
    /\ LET aborted == IF lv[p].stream
                      THEN Append(ops[p], Op("stream.abort", BaseVol, "done"))
                      ELSE ops[p]
       IN  IF CleanupDeletes(lv[p].createdVol)
           THEN \E r \in Outcomes(vol[BaseVol].file # "none") :
                  /\ ops' = [ops EXCEPT ![p] = Append(aborted, Op("vol.rollback", BaseVol, r))]
                  /\ IF r = "ok"
                     THEN vol' = [vol EXCEPT ![BaseVol] = NoVol]
                     ELSE UNCHANGED vol
           ELSE /\ ops' = [ops EXCEPT ![p] = aborted]
                /\ UNCHANGED vol
    /\ Raise(p, "RuntimeError", "volume")
    /\ UNCHANGED << pool, dom, lease, scratch, nextGen, cvars, lv, meta, hist >>
    /\ UNCHANGED files

\* ------------------------------ create_blank_disk / create_linked_clone_disk
\* Faulty variant of ProbeNext: the image is created whether or not the file
\* exists.
ProbeNext_always(rc) == IF rc \in {0, 1} THEN "disk_qemu_img" ELSE "raise"

\* Faulty variant of ProbeNext: every exit code but 0 is taken as "the file
\* does not exist".
ProbeNext_lenient(rc) == IF rc = 0 THEN "disk_refresh" ELSE "disk_qemu_img"

\* What the caller does with the exit code of `test -f <disk>` (create.py
\* 378-393 and 483-502).
ProbeNext(rc) == IF rc = 0 THEN "disk_refresh"
                 ELSE IF rc = 1 THEN "disk_qemu_img" ELSE "raise"

\* Exit code of `test -f` on the remote host: 0 when the file exists, 1 when
\* it does not, 2 when test itself failed, 255 when ssh failed.
TestRc(v, r) ==
    IF r = "ssh_fails" THEN 255
    ELSE IF r = "test_fails" THEN 2
    ELSE IF vol[v].file # "none" THEN 0 ELSE 1
RcName(rc) ==
    IF rc = 0 THEN "rc0" ELSE IF rc = 1 THEN "rc1" ELSE IF rc = 2 THEN "rc2" ELSE "rc255"

\* base_volume.path() / storage_pool.XMLDesc(0), then
\* run_remote_command(["test", "-f", path], check=False, timeout=30); a
\* timeout or a missing local ssh is no exit code at all and leaves the
\* function as RemoteCommandError.
create_disk_probe(p) ==
    /\ pc[p] = "disk_probe"
    /\ \E r \in {"ok", "ssh_fails", "test_fails", "timeout", "libvirt_err"} :
         IF r = "libvirt_err"
         THEN /\ Log(p, "disk.path", DiskName(Name(p)), "err")
              /\ Raise(p, "RuntimeError", "disk")
         ELSE IF r = "timeout"
         THEN /\ Log(p, "test -f", DiskName(Name(p)), "timeout")
              /\ Raise(p, "RemoteCommandError", "disk")
         ELSE /\ Log(p, "test -f", DiskName(Name(p)),
                     RcName(TestRc(DiskName(Name(p)), r)))
              /\ IF ProbeNext(TestRc(DiskName(Name(p)), r)) = "raise"
                 THEN Raise(p, "RemoteCommandError", "disk")
                 ELSE /\ Goto(p, ProbeNext(TestRc(DiskName(Name(p)), r)))
                      /\ UNCHANGED exc
    /\ UNCHANGED << hv, cvars, lv, meta, hist >>
    /\ UNCHANGED files

\* run_remote_command(["qemu-img", "create", ...]): a blank image for an
\* iso base image, else an overlay backed by the base volume.  A failed or
\* timed-out command may leave an unfinished file behind.
create_disk_qemu_img(p) ==
    /\ pc[p] = "disk_qemu_img"
    /\ \E r \in {"ok", "err_clean", "err_partial"} :
         /\ Log(p, "qemu-img", DiskName(Name(p)), r)
         /\ IF r = "err_clean"
            THEN UNCHANGED << vol, nextGen >>
            ELSE /\ vol' = [vol EXCEPT ![DiskName(Name(p))] =
                              [file |-> IF r = "ok" THEN "complete" ELSE "partial",
                               reg |-> FALSE, gen |-> 1, fresh |-> FALSE,
                               backing |-> IF IsIso(p) THEN "none" ELSE BaseVol]]
                 /\ UNCHANGED nextGen
         /\ IF r = "ok"
            THEN /\ lv' = [lv EXCEPT ![p].diskMade = TRUE]
                 /\ Goto(p, "disk_refresh")
                 /\ UNCHANGED exc
            ELSE /\ Raise(p, "RemoteCommandError", "disk")
                 /\ UNCHANGED lv
    /\ UNCHANGED << pool, dom, lease, scratch, cvars, meta, hist >>
    /\ UNCHANGED files

\* storage_pool.refresh(0): the pool registers every file of its directory.
\* The function then returns the path of the disk.
Refreshed == [v \in VolNames |->
                IF vol[v].file # "none"
                THEN [vol[v] EXCEPT !.reg = TRUE, !.fresh = TRUE]
                ELSE vol[v]]

create_disk_refresh(p) ==
    /\ pc[p] = "disk_refresh"
    /\ \E r \in Outcomes(pool.st = "active") :
         /\ Log(p, "pool.refresh", "", r)
         /\ IF r = "ok"
            THEN /\ vol' = Refreshed
                 /\ lv' = [lv EXCEPT ![p].diskRet = DiskName(Name(p))]
                 /\ Goto(p, "inst_lookup")
                 /\ UNCHANGED exc
            ELSE /\ Raise(p, "RuntimeError", "disk")
                 /\ UNCHANGED << vol, lv >>
    /\ UNCHANGED << pool, dom, lease, scratch, nextGen, cvars, meta, hist >>
    /\ UNCHANGED files

\* ------------------------------------------ install_domain_with_virt_install
CloudInitFiles == << "user-data", "network-config" >>

\* Faulty variant of InstallLookupNext: the installation is attempted
\* whether or not the domain exists.
InstallLookupNext_always(found, iso) == IF iso THEN "inst_run" ELSE "inst_upload"

\* Where install continues after conn.lookupByName(name) (install.py 62-83):
\* an existing domain ends the call, NO_DOMAIN and any other libvirtError
\* lead to the install attempt.
InstallLookupNext(found, iso) ==
    IF found THEN "ip_pre" ELSE IF iso THEN "inst_run" ELSE "inst_upload"

install_lookup(p) ==
    /\ pc[p] = "inst_lookup"
    /\ \E r \in Answers(dom[Name(p)].st # "absent") :
         /\ Log(p, "inst.lookup", Name(p), r)
         /\ Goto(p, InstallLookupNext(r = "found", IsIso(p)))
    /\ UNCHANGED << hv, cvars, lv, exc, meta, hist >>
    /\ UNCHANGED files

\* Exit codes of `ssh host -- bash -c 'rm -f "$0" && tar -C ... -xzf -'`
\* (upload.py 94, 100-119): 0 when the file was removed and extracted, 2
\* when tar failed and left the file part-written, 255 when ssh failed.
UploadRcs == {0, 2, 255}
\* The files the remote command leaves for exit code rc.
Extracted(rc, f) == IF rc \in {0, 2} THEN {f} ELSE {}

\* Faulty variant of UploadRaises: subprocess.run without check=True.
UploadRaises_unchecked(rc) == FALSE

\* subprocess.run(cmd_2, input=..., check=True) (upload.py 119) raises
\* CalledProcessError for a non-zero exit code.
UploadRaises(rc) == rc # 0

\* upload(host, user_data_path, ...) then upload(host, network_config_path,
\* ...) (install.py 92-109): a failure of either raises RuntimeError at once.
install_upload(p) ==
    /\ pc[p] = "inst_upload"
    /\ Cardinality(lv[p].uploaded) < Len(CloudInitFiles)
    /\ LET f == CloudInitFiles[Cardinality(lv[p].uploaded) + 1] IN
         \E rc \in UploadRcs :
           /\ Log(p, "upload", f, RcName(rc))
           /\ scratch' = [scratch EXCEPT ![Name(p)] = @ \cup Extracted(rc, f)]
           /\ IF ~UploadRaises(rc)
              THEN /\ lv' = [lv EXCEPT ![p].uploaded = @ \cup {f}]
                   /\ Goto(p, IF Cardinality(lv[p].uploaded) + 1 = Len(CloudInitFiles)
                              THEN "inst_run" ELSE "inst_upload")
                   /\ UNCHANGED exc
              ELSE /\ Raise(p, "RuntimeError", "install")
                   /\ UNCHANGED lv
    /\ UNCHANGED << pool, vol, dom, lease, nextGen, cvars, meta, hist >>
    /\ UNCHANGED files

\* The disks of the domain virt-install defines (install.py 128-140): the
\* primary disk, and the base volume as a read-only cdrom for an iso image.
InstalledDisks(d, iso, src) ==
    IF iso THEN << Disk("disk", src, DiskName(d)), Disk("cdrom", src, BaseVol) >>
    ELSE << Disk("disk", src, DiskName(d)) >>

\* What run_remote_command raises for an outcome of subprocess.run
\* (remote.py 140-160): CalledProcessError and TimeoutExpired both become
\* RemoteCommandError, a missing local ssh stays FileNotFoundError.
RemoteRaises(r) ==
    CASE r \in {"nonzero"} -> "RemoteCommandError"
      [] r \in {"timeout", "timeout_defined"} -> "RemoteCommandError"
      [] r = "no_ssh" -> "FileNotFoundError"
      [] r = "other" -> "RemoteCommandError"
      [] OTHER -> "none"

\* What install raises for an exception t of run_remote_command
\* (install.py 202-220): TimeoutError and FileNotFoundError are re-raised,
\* RemoteCommandError and anything else become RuntimeError.
InstallHandler(t) ==
    CASE t = "RemoteCommandError" -> "RuntimeError"
      [] t = "TimeoutError" -> "TimeoutError"
      [] t = "FileNotFoundError" -> "FileNotFoundError"
      [] OTHER -> "RuntimeError"

\* The exception install raises for an outcome of the remote virt-install
\* command (install.py 202-220; run_remote_command turns a non-zero exit and
\* a timeout alike into RemoteCommandError).
InstallFailure(r) ==
    IF r = "ok" THEN NoExc ELSE Exc(InstallHandler(RemoteRaises(r)), "install")

\* Faulty variant of AfterInstall: the IP stage runs whatever install raised.
AfterInstall_ignoring(e) == "ip_pre"

\* Where deploy_vm continues once install_domain_with_virt_install has run
\* the command and its finally clause, with exception e in flight.
AfterInstall(e) == IF e = NoExc THEN "ip_pre" ELSE "finally"

\* Whether virt-install can define the domain: the name is free and the
\* pool knows the volumes named on the command line.
CanInstall(d, iso) ==
    /\ dom[d].st = "absent"
    /\ VolKnown(DiskName(d))
    /\ iso => VolKnown(BaseVol)

\* run_remote_command(virt-install ...), timeout 600 s.  A command that
\* timed out may have defined the domain all the same.
install_virt_install(p) ==
    /\ pc[p] = "inst_run"
    /\ \E r \in {"nonzero", "timeout", "no_ssh"}
             \cup (IF CanInstall(Name(p), IsIso(p)) THEN {"ok", "timeout_defined"} ELSE {}),
          src \in {"vol", "file"} :
         /\ Log(p, "virt-install", Name(p), r)
         /\ IF r \in {"ok", "timeout_defined"}
            THEN dom' = [dom EXCEPT ![Name(p)] =
                           [st |-> "running",
                            disks |-> InstalledDisks(Name(p), IsIso(p), src),
                            by |-> "deploy"]]
            ELSE src = "vol" /\ UNCHANGED dom
         /\ exc' = [exc EXCEPT ![p] = InstallFailure(r)]
         /\ Goto(p, IF ~IsIso(p) THEN "inst_cleanup"
                    ELSE AfterInstall(InstallFailure(r)))
    /\ UNCHANGED << pool, vol, lease, scratch, nextGen, cvars, lv, meta, hist >>
    /\ UNCHANGED files

\* finally: ssh ... rm -f <user-data> <network-config>, errors ignored.
install_cleanup(p) ==
    /\ pc[p] = "inst_cleanup"
    /\ \E r \in {"ok", "err"} :
         /\ Log(p, "rm -f", Name(p), r)
         /\ IF r = "ok"
            THEN scratch' = [scratch EXCEPT ![Name(p)] = {}]
            ELSE UNCHANGED scratch
    /\ Goto(p, AfterInstall(exc[p]))
    /\ UNCHANGED << pool, vol, dom, lease, nextGen, cvars, lv, exc, meta, hist >>
    /\ UNCHANGED files

\* ------------------------------------------------ get_domain_ip_from_network
IpOf(d) == IF d = "d1" THEN "10.0.0.1" ELSE "10.0.0.2"

\* The checks made once before polling (network.py 41-100): domain and
\* network exist and are active, and the domain has an interface on the
\* network.  None is returned otherwise and deploy_vm raises RuntimeError.
\* Faulty variant of MissingIpNext: deploy_vm returns whatever address it got.
MissingIpNext_returning == "return"

\* What deploy_vm does when get_domain_ip_from_network returned None or an
\* empty string (deploy_vm.py 181-185): `if not ip: raise RuntimeError`.
MissingIpNext == "raise"

\* deploy_vm with no address in hand.
MissingIp(p) ==
    IF MissingIpNext = "raise"
    THEN Raise(p, "RuntimeError", "ip")
    ELSE Goto(p, "finally") /\ UNCHANGED exc

get_ip_preconditions(p) ==
    /\ pc[p] = "ip_pre"
    /\ \E r \in Outcomes(dom[Name(p)].st = "running") :
         /\ Log(p, "ip.preconditions", Name(p), r)
         /\ IF r = "ok"
            THEN Goto(p, "ip_poll") /\ UNCHANGED exc
            ELSE MissingIp(p)
    /\ UNCHANGED << hv, cvars, lv, meta, hist >>
    /\ UNCHANGED files

\* One polling attempt (network.py 102-166): network.DHCPLeases().  The
\* guest may have obtained its lease by now; a lease once given stays.
LeaseOutcomes(d) ==
    {"fatal", "error"}
    \cup (IF dom[d].st = "running" THEN {"lease"} ELSE {})
    \cup (IF dom[d].st = "running" /\ lease[d] THEN {} ELSE {"nolease"})

get_ip_poll(p) ==
    /\ pc[p] = "ip_poll"
    /\ lv[p].attempt < Retries
    /\ \E r \in LeaseOutcomes(Name(p)) :
         /\ Log(p, "DHCPLeases", Name(p), r)
         /\ IF r = "lease"
            THEN /\ lease' = [lease EXCEPT ![Name(p)] = TRUE]
                 /\ lv' = [lv EXCEPT ![p].ip = IpOf(Name(p))]
                 /\ Goto(p, "finally")
                 /\ UNCHANGED exc
            ELSE IF r = "fatal" \/ lv[p].attempt + 1 = Retries
            THEN /\ MissingIp(p)
                 /\ lv' = [lv EXCEPT ![p].attempt = @ + 1]
                 /\ UNCHANGED lease
            ELSE /\ lv' = [lv EXCEPT ![p].attempt = @ + 1]
                 /\ Goto(p, "ip_poll")
                 /\ UNCHANGED << lease, exc >>
    /\ UNCHANGED << pool, vol, dom, scratch, nextGen, cvars, meta, hist >>
    /\ UNCHANGED files

\* ------------------------------------------------------------------ delete_vm
\* Faulty variant of DeleteLookupNext: a missing domain is treated like a
\* domain that is shut off.
DeleteLookupNext_strict(st) == IF st = "running" THEN "x_destroy" ELSE "x_xml"

\* Where delete_vm continues after conn.lookupByName (destroy.py 60-74).
DeleteLookupNext(st) ==
    IF st = "absent" THEN "finally"
    ELSE IF st = "running" THEN "x_destroy" ELSE "x_xml"

\* conn.lookupByName(domain_name) and dom.isActive(); VIR_ERR_NO_DOMAIN
\* returns, any other libvirtError is re-raised.
delete_vm_lookup(p) ==
    /\ pc[p] = "x_lookup"
    /\ \E r \in Answers(dom[Name(p)].st # "absent") :
         /\ Log(p, "dom.lookup", Name(p), r)
         /\ IF r = "err"
            THEN Raise(p, "libvirtError", "lookup") /\ UNCHANGED lv
            ELSE /\ lv' = [lv EXCEPT ![p].lookup =
                             IF r = "absent" THEN "NO_DOMAIN" ELSE "found"]
                 /\ Goto(p, DeleteLookupNext(dom[Name(p)].st))
                 /\ UNCHANGED exc
    /\ UNCHANGED << hv, cvars, meta, hist >>
    /\ UNCHANGED files

\* Faulty variant of StopFailedNext: a failed force-stop is only logged.
StopFailedNext_lenient == "x_xml"

\* Where delete_vm continues when dom.destroy() raises (destroy.py 82-86).
StopFailedNext == "finally"

\* dom.destroy(): force stop of a running domain.
delete_vm_destroy(p) ==
    /\ pc[p] = "x_destroy"
    /\ \E r \in Outcomes(dom[Name(p)].st = "running") :
         /\ Log(p, "dom.destroy", Name(p), r)
         /\ IF r = "ok"
            THEN /\ dom' = [dom EXCEPT ![Name(p)].st = "shutoff"]
                 /\ Goto(p, "x_xml")
                 /\ UNCHANGED exc
            ELSE /\ exc' = [exc EXCEPT ![p] = Exc("RuntimeError", "stop")]
                 /\ Goto(p, StopFailedNext)
                 /\ UNCHANGED dom
    /\ UNCHANGED << pool, vol, lease, scratch, nextGen, cvars, lv, meta, hist >>
    /\ UNCHANGED files

\* The volumes delete_vm collects from the descriptor (destroy.py 93-117):
\* <disk device='disk'> elements only, those naming pool and volume first
\* (pool_and_vol_names), then those naming a file (disk_paths).
\* Faulty variant of IsVolRef: every <disk> element with pool and volume
\* attributes is collected, whatever its device kind.
IsVolRef_anyDevice(x) == x.src = "vol"
IsVolRef(x) == x.dev = "disk" /\ x.src = "vol"
IsPathRef(x) == x.dev = "disk" /\ x.src = "file"
RefsOf(disks) == SelectSeq(disks, IsVolRef) \o SelectSeq(disks, IsPathRef)

\* Faulty variant of XmlFailedNext: the call ends after the failed read.
XmlFailedNext_returning == "finally"

\* Where delete_vm continues when dom.XMLDesc or the parse raises
\* (destroy.py 118-123): the exception is logged, "Continue to undefine".
XmlFailedNext == "x_undefine"

\* dom.XMLDesc(0) and the parse; any exception is logged and the call goes
\* on to the undefine with what was collected.
delete_vm_xml(p) ==
    /\ pc[p] = "x_xml"
    /\ \E r \in Outcomes(dom[Name(p)].st # "absent") :
         /\ Log(p, "dom.XMLDesc", Name(p), r)
         /\ lv' = [lv EXCEPT ![p].refs =
                     IF r = "ok" THEN RefsOf(dom[Name(p)].disks) ELSE << >>]
         /\ Goto(p, IF r = "ok" THEN "x_undefine" ELSE XmlFailedNext)
    /\ UNCHANGED << hv, cvars, exc, meta, hist >>
    /\ UNCHANGED files

\* Faulty variant of UndefineFailedNext: a failed undefine is only logged.
UndefineFailedNext_lenient == "x_find"

\* Where delete_vm continues when dom.undefineFlags raises (destroy.py
\* 136-140).
UndefineFailedNext == "finally"

\* dom.undefineFlags(MANAGED_SAVE | SNAPSHOTS_METADATA | NVRAM).
delete_vm_undefine(p) ==
    /\ pc[p] = "x_undefine"
    /\ \E r \in Outcomes(dom[Name(p)].st = "shutoff") :
         /\ Log(p, "dom.undefine", Name(p), r)
         /\ IF r = "ok"
            THEN /\ dom' = [dom EXCEPT ![Name(p)] = NoDom]
                 /\ lease' = [lease EXCEPT ![Name(p)] = FALSE]
                 /\ lv' = [lv EXCEPT ![p].i = 1]
                 /\ Goto(p, IF lv[p].refs = << >> THEN "finally" ELSE "x_find")
                 /\ UNCHANGED exc
            ELSE /\ exc' = [exc EXCEPT ![p] = Exc("RuntimeError", "undefine")]
                 /\ Goto(p, UndefineFailedNext)
                 /\ UNCHANGED << dom, lease, lv >>
    /\ UNCHANGED << pool, vol, scratch, nextGen, cvars, meta, hist >>
    /\ UNCHANGED files

\* `vol not in volumes_to_delete` (destroy.py 164): virStorageVol objects
\* compare by identity, and every lookup returns a new object.
AlreadyCollected(v, todel) == FALSE

\* One iteration of the two lookup loops (destroy.py 146-175):
\* storagePoolLookupByName + storageVolLookupByName, or
\* storageVolLookupByPath; a libvirtError is logged and the loop goes on.
delete_vm_find_volume(p) ==
    /\ pc[p] = "x_find"
    /\ lv[p].i <= Len(lv[p].refs)
    /\ LET v == lv[p].refs[lv[p].i].vol
           last == lv[p].i = Len(lv[p].refs)
       IN  \E r \in Answers(VolKnown(v)) :
             LET found == r = "found" /\ ~AlreadyCollected(v, lv[p].todel)
                 td == IF found THEN Append(lv[p].todel, v) ELSE lv[p].todel
             IN  /\ Log(p, "vol.find", v, r)
                 /\ lv' = [lv EXCEPT ![p].todel = td,
                                     ![p].i = IF last THEN 1 ELSE @ + 1]
                 /\ Goto(p, IF ~last THEN "x_find"
                            ELSE IF td = << >> THEN "finally" ELSE "x_delete")
    /\ UNCHANGED << hv, cvars, exc, meta, hist >>
    /\ UNCHANGED files

\* What the delete loop does when vol.name()/vol.path() raises before the
\* delete of the i-th collected volume (destroy.py 185-202): the handler
\* formats vol_path, which is unbound in the first iteration, so the
\* UnboundLocalError leaves the loop and becomes the RuntimeError of
\* destroy.py 209-214; in a later iteration the error is logged with the
\* previous path and the loop goes on.
PathFailedNext(i) == IF i = 1 THEN "abort" ELSE "continue"

\* One iteration of the delete loop: vol.name(), vol.path(), vol.delete(0).
delete_vm_delete_volume(p) ==
    /\ pc[p] = "x_delete"
    /\ lv[p].i <= Len(lv[p].todel)
    /\ LET v == lv[p].todel[lv[p].i]
           last == lv[p].i = Len(lv[p].todel)
       IN  \E r \in {"path_fails"} \cup Outcomes(VolKnown(v)) :
             IF r = "path_fails"
             THEN /\ Log(p, "vol.path", v, "err")
                  /\ UNCHANGED vol
                  /\ IF PathFailedNext(lv[p].i) = "abort"
                     THEN Raise(p, "RuntimeError", "delete") /\ UNCHANGED lv
                     ELSE /\ lv' = [lv EXCEPT ![p].i = @ + 1]
                          /\ Goto(p, IF last THEN "finally" ELSE "x_delete")
                          /\ UNCHANGED exc
             ELSE /\ Log(p, "vol.delete", v, r)
                  /\ IF r = "ok"
                     THEN vol' = [vol EXCEPT ![v] = NoVol]
                     ELSE UNCHANGED vol
                  /\ lv' = [lv EXCEPT ![p].i = @ + 1]
                  /\ Goto(p, IF last THEN "finally" ELSE "x_delete")
                  /\ UNCHANGED exc
    /\ UNCHANGED << pool, dom, lease, scratch, nextGen, cvars, meta, hist >>
    /\ UNCHANGED files

\* ------------------------------------------------------ finally: conn.close()
\* The outcome of the call once the finally clause has run, given the
\* exception in flight and whether conn.close() raised (deploy_vm.py
\* 195-205, destroy.py 215-227: a libvirtError of close is only logged).
Outcome(e, ip, closeOk) ==
    [res |-> IF e = NoExc THEN "ok" ELSE "err", exc |-> e, ip |-> ip]

\* Whether the finally clause calls conn.close().
ShouldClose(c) == c = "open"

close_connection(p) ==
    /\ pc[p] = "finally"
    /\ \E r \in {"ok", "err"} :
         /\ IF ShouldClose(conn[p])
            THEN /\ Log(p, "conn.close", "", r)
                 /\ closes' = [closes EXCEPT ![p] = @ + 1]
                 /\ conn' = [conn EXCEPT ![p] = "closed"]
                 /\ sess' = [sess EXCEPT ![p] = 0]
            ELSE /\ r = "ok"
                 /\ UNCHANGED << ops, cvars >>
         /\ out' = [out EXCEPT ![p] = Outcome(exc[p], lv[p].ip, r = "ok")]
    /\ Goto(p, "idle")
    /\ UNCHANGED << hv, lv, exc, call, snap, ncalls, hist >>
    /\ UNCHANGED files

\* The process running the call is interrupted (cancellation is by
\* process-level interruption only): nothing more of the call runs.
Kill(p) ==
    /\ pc[p] \notin {"idle"}
    /\ Goto(p, "idle")
    /\ out' = [out EXCEPT ![p] = [res |-> "killed", exc |-> NoExc, ip |-> "none"]]
    /\ conn' = [conn EXCEPT ![p] = "none"]
    /\ sess' = [sess EXCEPT ![p] = 0]
    /\ closes' = [closes EXCEPT ![p] = 0]
    /\ lv' = [lv EXCEPT ![p] = NoLv]
    /\ exc' = [exc EXCEPT ![p] = NoExc]
    /\ ops' = [ops EXCEPT ![p] = << >>]
    /\ snap' = [snap EXCEPT ![p] = << >>]
    /\ UNCHANGED << hv, call, ncalls, hist >>
    /\ UNCHANGED files

\* ------------------------------------------------------------------ upload
\* upload(host, local_src, remote_dest, ...) called on its own.  A path is
\* what pathlib holds: whether it has the root "/", and its components.
PathNames == {"tmp", "root", "etc", "home", "x"}
PathsUpTo(n) == UNION {[1..k -> PathNames] : k \in 0..n}
RemotePaths == [abs : BOOLEAN, comps : PathsUpTo(MaxDepth)]
SrcKinds == {"dir", "file", "missing"}

\* PurePath.parts: the root, if any, then the components.
Parts(d) == IF d.abs THEN << "/" >> \o d.comps ELSE d.comps
\* The components with a separator between them.
RECURSIVE Join(_)
Join(cs) ==
    IF Len(cs) = 0 THEN << >>
    ELSE IF Len(cs) = 1 THEN cs
    ELSE << cs[1], "/" >> \o Join(Tail(cs))
\* str(path), as a sequence of separators and component names.
Str(d) ==
    IF d.abs THEN << "/" >> \o Join(d.comps)
    ELSE IF d.comps = << >> THEN << "." >> ELSE Join(d.comps)
\* s.startswith(pre)
StartsWith(s, pre) == Len(s) >= Len(pre) /\ SubSeq(s, 1, Len(pre)) = pre

MinDepth == 3
MinExceptionDepth == 2
AllowedPrefixes == { << "/", "tmp", "/" >>, << "/", "root", "/" >>, << "/", "etc", "/" >> }
\* depth = len(remote_dest.parts) - 1
Depth(d) == Len(Parts(d)) - 1
IsTooShallow(d) == Depth(d) < MinDepth
IsAllowedException(d) ==
    /\ Depth(d) >= MinExceptionDepth
    /\ \E pre \in AllowedPrefixes : StartsWith(Str(d), pre)

\* Faulty variant of Rejected: no exception for /tmp/, /root/ and /etc/.
Rejected_noException(d) == IsTooShallow(d)

\* Whether a directory upload to d raises ValueError (upload.py 42-49).
Rejected(d) == IsTooShallow(d) /\ ~IsAllowedException(d)

NewUpload(src, dest) ==
    [pc |-> "check", src |-> src, dest |-> dest, exc |-> NoExc,
     tar |-> FALSE, cmds |-> << >>, remote |-> "old"]

\* The depth check of a directory upload (upload.py 22-49).
upload_check(u) ==
    /\ u.pc = "check"
    /\ IF u.src = "dir" /\ Rejected(u.dest)
       THEN up' = [u EXCEPT !.pc = "done", !.exc = Exc("ValueError", "depth")]
       ELSE up' = [u EXCEPT !.pc = "tar"]
    /\ UNCHANGED << dvars, dl, net, rem, auto, inst >>

\* The archive is written to a local temporary directory (upload.py
\* 52-88); tar.gettarinfo raises for a source that does not exist.
upload_tar(u) ==
    /\ u.pc = "tar"
    /\ IF u.src = "missing"
       THEN up' = [u EXCEPT !.pc = "done", !.exc = Exc("FileNotFoundError", "tar")]
       ELSE up' = [u EXCEPT !.pc = "ssh", !.tar = TRUE]
    /\ UNCHANGED << dvars, dl, net, rem, auto, inst >>

\* What the remote command leaves at the destination.
RemoteAfter(rc, before) ==
    IF rc = 0 THEN "new" ELSE IF rc = 2 THEN "partial" ELSE before

\* ssh host -- bash -c 'rm -rf "$0" && mkdir ... && tar -C "$0" -xzf -'
\* (or rm -f && tar for a file), fed with the archive (upload.py 90-119).
upload_ssh(u) ==
    /\ u.pc = "ssh"
    /\ \E rc \in UploadRcs :
         up' = [u EXCEPT !.pc = "done",
                         !.cmds = Append(@, RcName(rc)),
                         !.remote = RemoteAfter(rc, @),
                         !.exc = IF UploadRaises(rc)
                                 THEN Exc("CalledProcessError", "ssh") ELSE NoExc]
    /\ UNCHANGED << dvars, dl, net, rem, auto, inst >>

InitUpload ==
    /\ DeployInit /\ pool.st = "absent"
    /\ up \in {NewUpload(src, dest) : src \in SrcKinds, dest \in RemotePaths}
    /\ dl = NoFetch /\ net = NoResolve /\ rem = NoRemote /\ auto = NoAuto /\ inst = NoPlan

NextUpload ==
    \/ upload_check(up)
    \/ upload_tar(up)
    \/ upload_ssh(up)

\* One call of upload() for every kind of source and every destination.
SpecUpload == InitUpload /\ [][NextUpload]_vars

\* ----------------------------------------------------------- download_file
\* download_file(url, destination, checksum) called on its own.  File
\* contents are "A", "B" or "part" (a file cut short); their SHA-256 digests
\* are "ha", "hb" and "hp".
UrlKinds == {"path", "bare", "http"}
Contents == {"A", "B"}
Checksums == {"none", "ha", "HA"}
\* hashlib.sha256(...).hexdigest(): lower-case hex.
Sha256(c) == CASE c = "A" -> "ha" [] c = "B" -> "hb" [] OTHER -> "hp"
\* str.lower() on the strings of the model: digests, MAC addresses and
\* error messages.
Lower(h) ==
    CASE h = "HA" -> "ha"
      [] h = "AA" -> "aa"
      [] h = "BB" -> "bb"
      [] h = "ISO" -> "iso"
      [] h = "Network is not active" -> "network is not active"
      [] h = "DHCP server is not running" -> "dhcp server is not running"
      [] OTHER -> h

\* Faulty variant of ChecksumMatches: the expected digest is compared as given.
ChecksumMatches_caseSensitive(c, expected) == Sha256(c) = expected

\* calculated_checksum == expected_lower (download.py 37-39)
ChecksumMatches(c, expected) == Sha256(c) = Lower(expected)

\* Answers of _verify_checksum for a file of content c: the comparison, or
\* an OSError while reading.
VerifyOutcomes(c, expected) ==
    {IF ChecksumMatches(c, expected) THEN "match" ELSE "mismatch", "unreadable"}
\* What _verify_checksum raises (download.py 41-55).
VerifyRaises(r) ==
    CASE r = "mismatch" -> "ValueError"
      [] r = "unreadable" -> "RuntimeError"
      [] OTHER -> "none"

\* is_local_file (download.py 89-102): a path-like url, or a url without a
\* known scheme that names an existing path.
IsLocalFile(url, src) == url = "path" \/ (url = "bare" /\ src # "missing")

NewFetch(url, checksum, src, data, dest) ==
    [pc |-> "exists", url |-> url, checksum |-> checksum, src |-> src,
     srcData |-> data, dest |-> dest, dest0 |-> dest, via |-> "none",
     ops |-> << >>, exc |-> NoExc]

FetchLog(o, r) == Append(dl.ops, Op(o, "", r))
\* destination.unlink() under contextlib.suppress(OSError)
Unlinked(r) == IF r = "ok" THEN "none" ELSE dl.dest

\* if destination.exists(): ... (download.py 72-87)
download_exists ==
    /\ dl.pc = "exists"
    /\ dl' = [dl EXCEPT !.pc = IF dl.dest = "none" THEN "detect"
                               ELSE IF dl.checksum = "none" THEN "done"
                               ELSE "verify_existing"]
    /\ UNCHANGED << dvars, up, net, rem, auto, inst >>

\* Faulty variant of AfterExistingVerify: an existing file is used whatever
\* the verification says.
AfterExistingVerify_trusting(r) == "done"

\* Where download_file continues after verifying an existing file
\* (download.py 75-84).
AfterExistingVerify(r) == IF r = "match" THEN "done" ELSE "unlink_existing"

download_verify_existing ==
    /\ dl.pc = "verify_existing"
    /\ \E r \in VerifyOutcomes(dl.dest, dl.checksum) :
         dl' = [dl EXCEPT !.ops = FetchLog("verify", r),
                          !.pc = AfterExistingVerify(r)]
    /\ UNCHANGED << dvars, up, net, rem, auto, inst >>

download_unlink_existing ==
    /\ dl.pc = "unlink_existing"
    /\ \E r \in {"ok", "err"} :
         dl' = [dl EXCEPT !.ops = FetchLog("unlink", r),
                          !.dest = Unlinked(r),
                          !.pc = "detect"]
    /\ UNCHANGED << dvars, up, net, rem, auto, inst >>

\* Source detection and the checks of a local source (download.py 89-114).
download_detect ==
    /\ dl.pc = "detect"
    /\ IF IsLocalFile(dl.url, dl.src)
       THEN IF dl.src = "missing"
            THEN dl' = [dl EXCEPT !.pc = "done", !.exc = Exc("FileNotFoundError", "source")]
            ELSE IF dl.src = "dir"
            THEN dl' = [dl EXCEPT !.pc = "done", !.exc = Exc("ValueError", "source")]
            ELSE dl' = [dl EXCEPT !.pc = "copy"]
       ELSE dl' = [dl EXCEPT !.pc = "urlopen"]
    /\ UNCHANGED << dvars, up, net, rem, auto, inst >>

\* Where download_file continues after a fetch that succeeded.
AfterFetch(checksum) == IF checksum = "none" THEN "done" ELSE "verify_fetched"

\* shutil.copy2(source_path, destination) (download.py 117-123, 131-137);
\* an OSError may leave a file cut short.
download_copy ==
    /\ dl.pc = "copy"
    /\ \/ dl' = [dl EXCEPT !.ops = FetchLog("copy", "ok"),
                            !.dest = dl.srcData, !.via = "copy",
                            !.pc = AfterFetch(dl.checksum)]
       \/ \E left \in {dl.dest, "part"} :
            dl' = [dl EXCEPT !.ops = FetchLog("copy", "err"),
                             !.dest = left, !.via = "copy",
                             !.exc = Exc("OSError", "fetch"),
                             !.pc = "delete"]
    /\ UNCHANGED << dvars, up, net, rem, auto, inst >>

\* urllib.request.urlopen and the read/write loop (download.py 141-222): a
\* url without a known scheme is refused by Request, the server may refuse,
\* the transfer may be cut after the destination was opened for writing.
download_urlopen ==
    /\ dl.pc = "urlopen"
    /\ IF dl.url = "bare"
       THEN dl' = [dl EXCEPT !.ops = FetchLog("urlopen", "bad_url"), !.via = "url",
                             !.exc = Exc("RuntimeError", "fetch"), !.pc = "delete"]
       ELSE \/ dl' = [dl EXCEPT !.ops = FetchLog("urlopen", "ok"),
                                !.dest = dl.srcData, !.via = "url",
                                !.pc = AfterFetch(dl.checksum)]
            \/ dl' = [dl EXCEPT !.ops = FetchLog("urlopen", "refused"), !.via = "url",
                                !.exc = Exc("URLError", "fetch"), !.pc = "delete"]
            \/ dl' = [dl EXCEPT !.ops = FetchLog("urlopen", "cut"), !.via = "url",
                                !.dest = "part",
                                !.exc = Exc("OSError", "fetch"), !.pc = "delete"]
    /\ UNCHANGED << dvars, up, net, rem, auto, inst >>

\* Where download_file continues when the verification of the fetched file
\* raised: after a copy the exception is not an OSError and leaves the
\* function (download.py 126-137), after a download the file is unlinked
\* first (226-235).
FetchedVerifyFailedNext(via) == IF via = "copy" THEN "done" ELSE "delete"

download_verify_fetched ==
    /\ dl.pc = "verify_fetched"
    /\ \E r \in VerifyOutcomes(dl.dest, dl.checksum) :
         dl' = [dl EXCEPT !.ops = FetchLog("verify", r),
                          !.exc = IF r = "match" THEN NoExc
                                  ELSE Exc(VerifyRaises(r), "checksum"),
                          !.pc = IF r = "match" THEN "done"
                                 ELSE FetchedVerifyFailedNext(dl.via)]
    /\ UNCHANGED << dvars, up, net, rem, auto, inst >>

\* The cleanup before the exception is re-raised (download.py 134-136,
\* 204-206, 211-213, 218-220, 233-234): unlink, errors suppressed.
download_delete ==
    /\ dl.pc = "delete"
    /\ IF dl.dest = "none"
       THEN dl' = [dl EXCEPT !.pc = "done"]
       ELSE \E r \in {"ok", "err"} :
              dl' = [dl EXCEPT !.ops = FetchLog("unlink", r),
                               !.dest = Unlinked(r),
                               !.pc = "done"]
    /\ UNCHANGED << dvars, up, net, rem, auto, inst >>

InitFetch ==
    /\ DeployInit /\ pool.st = "absent"
    /\ up = NoUpload /\ net = NoResolve /\ rem = NoRemote /\ auto = NoAuto /\ inst = NoPlan
    /\ dl \in {NewFetch(u, c, src, data, dest) :
                 u \in UrlKinds, c \in Checksums, src \in {"missing", "dir", "file"},
                 data \in Contents, dest \in Contents \cup {"none"}}

NextFetch ==
    \/ download_exists
    \/ download_verify_existing
    \/ download_unlink_existing
    \/ download_detect
    \/ download_copy
    \/ download_urlopen
    \/ download_verify_fetched
    \/ download_delete

\* One call of download_file for every kind of url, checksum, source and
\* destination.
SpecFetch == InitFetch /\ [][NextFetch]_vars

\* ------------------------------------------- get_domain_ip_from_network alone
\* get_domain_ip_from_network(conn, domain_name, "net0", retries, delay).
\* The interfaces of the domain descriptor and the leases of the network.
Ifaces == { [net |-> "net0", mac |-> "AA"], [net |-> "net0", mac |-> "bb"],
            [net |-> "other", mac |-> "cc"] }
Leases == { [mac |-> "AA", ip |-> "10.0.0.5", type |-> "ipv4"],
            [mac |-> "aa", ip |-> "10.0.0.6", type |-> "ipv4"],
            [mac |-> "aa", ip |-> "fe80::5", type |-> "ipv6"],
            [mac |-> "cc", ip |-> "10.0.0.9", type |-> "ipv4"],
            [mac |-> "bb", ip |-> "", type |-> "ipv4"] }
SeqsUpTo2(S) == {<< >>} \cup {<< a >> : a \in S} \cup {<< a, b >> : a \in S, b \in S}
\* Messages of a libvirtError raised by network.DHCPLeases(), and any
\* other exception.
LeaseErrors == {"Network is not active", "DHCP server is not running", "timed out"}
PollAnswers ==
    [kind : {"leases"}, table : SeqsUpTo2(Leases), msg : {""}]
    \cup [kind : {"libvirtError"}, table : {<< >>}, msg : LeaseErrors]
    \cup [kind : {"Exception"}, table : {<< >>}, msg : {"other"}]

\* target_macs (network.py 67-79): the lower-cased addresses of the
\* interfaces whose source network is the named one.
TargetMacs(ifs) == {Lower(ifs[i].mac) : i \in {j \in DOMAIN ifs : ifs[j].net = "net0"}}

\* Faulty variant of PreconditionsOk: a domain without an interface on the
\* network is polled for all the same.
PreconditionsOk_anyIface(n) == n.domSt = "running" /\ n.netSt = "active"

\* The checks before the loop (network.py 41-100): both lookups answered,
\* domain and network active, at least one interface on the network.
PreconditionsOk(n) ==
    /\ n.domSt = "running"
    /\ n.netSt = "active"
    /\ TargetMacs(n.ifaces) # {}

\* Faulty variant of LeaseMatches: the MAC of the lease is compared as given.
LeaseMatches_caseSensitive(l, macs) == l.ip # "" /\ l.mac \in macs /\ l.type = "ipv4"

\* ip_addr and lease_mac in target_macs and ip_type == IPV4 (network.py 121-129)
LeaseMatches(l, macs) == l.ip # "" /\ Lower(l.mac) \in macs /\ l.type = "ipv4"

\* The address the for loop over the leases returns, "none" if it ends.
FirstMatch(t, macs) ==
    LET hits == {i \in DOMAIN t : LeaseMatches(t[i], macs)} IN
      IF hits = {} THEN "none"
      ELSE t[CHOOSE i \in hits : \A j \in hits : i <= j].ip

\* Whether the libvirtError of a lease query ends the polling (network.py
\* 144-154): the lower-cased message is searched for the two phrases.
IsFatalLeaseError(msg) ==
    Lower(msg) \in {"network is not active", "DHCP server is not running"}

\* Faulty variant of SleepsAfter: the delay follows every attempt.
SleepsAfter_always(attempt, retries) == TRUE

\* if attempt < retries - 1: time.sleep(delay) (network.py 163-166)
SleepsAfter(attempt, retries) == attempt < retries - 1

NewResolve(retries, domSt, netSt, ifaces) ==
    [pc |-> "pre", retries |-> retries, domSt |-> domSt, netSt |-> netSt,
     ifaces |-> ifaces, attempt |-> 0, queries |-> 0, waits |-> 0,
     last |-> [kind |-> "none", table |-> << >>, msg |-> ""], slept |-> FALSE,
     ret |-> "none", exc |-> NoExc]

\* Lookups, isActive checks and the scan of the descriptor (network.py
\* 41-100); isActive of a domain that went away raises libvirtError.
resolve_preconditions ==
    /\ net.pc = "pre"
    /\ net' = IF net.domSt = "gone" /\ net.netSt \notin {"absent", "lookup_err"}
              THEN [net EXCEPT !.pc = "done", !.exc = Exc("libvirtError", "ip")]
              ELSE IF PreconditionsOk(net)
              THEN [net EXCEPT !.pc = IF net.retries = 0 THEN "done" ELSE "poll"]
              ELSE [net EXCEPT !.pc = "done"]
    /\ UNCHANGED << dvars, up, dl, rem, auto, inst >>

\* One pass of `for attempt in range(retries)` (network.py 102-172).
resolve_poll ==
    /\ net.pc = "poll"
    /\ \E a \in PollAnswers :
         LET hit == IF a.kind = "leases"
                    THEN FirstMatch(a.table, TargetMacs(net.ifaces)) ELSE "none"
             ends == hit # "none" \/ (a.kind = "libvirtError" /\ IsFatalLeaseError(a.msg))
             sleeps == ~ends /\ SleepsAfter(net.attempt, net.retries)
         IN  net' = [net EXCEPT
                       !.queries = @ + 1,
                       !.last = a,
                       !.ret = hit,
                       !.slept = sleeps,
                       !.waits = IF sleeps THEN @ + 1 ELSE @,
                       !.attempt = @ + 1,
                       !.pc = IF ends \/ net.attempt + 1 >= net.retries
                              THEN "done" ELSE "poll"]
    /\ UNCHANGED << dvars, up, dl, rem, auto, inst >>

InitResolve ==
    /\ DeployInit /\ pool.st = "absent"
    /\ up = NoUpload /\ dl = NoFetch /\ rem = NoRemote /\ auto = NoAuto /\ inst = NoPlan
    /\ net \in {NewResolve(r, d, n, i) :
                  r \in 0..(Retries + 1),
                  d \in {"absent", "lookup_err", "shutoff", "running", "gone"},
                  n \in {"absent", "lookup_err", "inactive", "active"},
                  i \in SeqsUpTo2(Ifaces)}

NextResolve ==
    \/ resolve_preconditions
    \/ resolve_poll

\* One call of get_domain_ip_from_network for every retry count, state of
\* domain and network and set of interfaces, with any lease table or
\* error at each attempt.
SpecResolve == InitResolve /\ [][NextResolve]_vars

\* ------------------------------------------------- run_remote_command alone
\* run_remote_command(host, command, timeout=..., check=..., ssh_key=...)
\* as called for the group id (check), for the file probe (no check) and
\* for virt-install (check, followed by the handlers of install).
\* str.strip() on the captured streams of the model.
Strip(t) == IF t = " out " THEN "out" ELSE IF t = " err " THEN "err" ELSE t
\* The argument vector handed to subprocess.run (remote.py 89-108).
SshArgv(key, caller) ==
    << "ssh", "-o", "StrictHostKeyChecking=no", "-o", "UserKnownHostsFile=/dev/null" >>
    \o (IF key THEN << "-i", "key" >> ELSE << >>)
    \o << "-T", "host", "--", caller >>

\* Faulty variant of RaisesOnExit: the exit code is never checked.
RaisesOnExit_never(check, rc) == FALSE

\* subprocess.run(..., check=check): CalledProcessError for a non-zero
\* exit code when check is set (remote.py 114-117).
RaisesOnExit(check, rc) == check /\ rc # 0

\* Faulty variant of AfterRun: a missing ssh binary is tried again.
AfterRun_retry(kind) == IF kind = "no_ssh" THEN "run" ELSE "finish"

\* Where run_remote_command continues when subprocess.run has returned or
\* raised: the result is built or an except clause runs, nothing loops.
AfterRun(kind) == "finish"

NoCode == 0 - 1
NewRemote(caller, key) ==
    [pc |-> "argv", caller |-> caller, check |-> caller # "test -f", key |-> key,
     argv |-> << >>, starts |-> 0,
     proc |-> [kind |-> "none", rc |-> NoCode, stdout |-> "", stderr |-> ""],
     result |-> [stdout |-> "unset", stderr |-> "unset", returncode |-> NoCode],
     err |-> [type |-> "none", returncode |-> NoCode, stdout |-> "unset", stderr |-> "unset"],
     exc |-> "none"]

remote_argv ==
    /\ rem.pc = "argv"
    /\ rem' = [rem EXCEPT !.argv = SshArgv(rem.key, rem.caller), !.pc = "run"]
    /\ UNCHANGED << dvars, up, dl, net, auto, inst >>

\* subprocess.run(ssh_cmd, check=check, capture_output=True, text=True,
\* timeout=timeout): the process exits, runs into the timeout, cannot be
\* started for want of the ssh binary, or fails otherwise.
remote_run ==
    /\ rem.pc = "run"
    /\ \E pr \in [kind : {"exit"}, rc : {0, 1, 255}, stdout : {"", " out "}, stderr : {"", " err "}]
                \cup [kind : {"timeout", "no_ssh", "other"}, rc : {NoCode}, stdout : {""}, stderr : {""}] :
         rem' = [rem EXCEPT !.proc = pr, !.starts = @ + 1, !.pc = AfterRun(pr.kind)]
    /\ UNCHANGED << dvars, up, dl, net, auto, inst >>

\* The return statement and the except clauses (remote.py 119-160).
remote_finish ==
    /\ rem.pc = "finish"
    /\ LET pr == rem.proc
           raised == IF pr.kind = "exit"
                     THEN IF RaisesOnExit(rem.check, pr.rc) THEN "nonzero" ELSE "ok"
                     ELSE pr.kind
       IN  IF raised = "ok"
           THEN rem' = [rem EXCEPT !.pc = "returned",
                          !.result = [stdout |-> Strip(pr.stdout), stderr |-> Strip(pr.stderr),
                                      returncode |-> pr.rc]]
           ELSE rem' = [rem EXCEPT !.pc = "raised",
                          !.exc = RemoteRaises(raised),
                          !.err = IF raised = "nonzero"
                                  THEN [type |-> RemoteRaises(raised), returncode |-> pr.rc,
                                        stdout |-> pr.stdout, stderr |-> pr.stderr]
                                  ELSE [@ EXCEPT !.type = RemoteRaises(raised)]]
    /\ UNCHANGED << dvars, up, dl, net, auto, inst >>

\* The except clauses of install around the virt-install command
\* (install.py 202-220): the exception is translated and raised.
remote_install_handler ==
    /\ rem.pc = "raised" /\ rem.caller = "virt-install"
    /\ rem' = [rem EXCEPT !.pc = "install_raised", !.exc = InstallHandler(@)]
    /\ UNCHANGED << dvars, up, dl, net, auto, inst >>

InitRemote ==
    /\ DeployInit /\ pool.st = "absent"
    /\ up = NoUpload /\ dl = NoFetch /\ net = NoResolve /\ auto = NoAuto /\ inst = NoPlan
    /\ rem \in {NewRemote(c, k) : c \in {"id -g", "test -f", "virt-install"}, k \in BOOLEAN}

NextRemote ==
    \/ remote_argv
    \/ remote_run
    \/ remote_finish
    \/ remote_install_handler

\* One call of run_remote_command from each kind of caller, with every
\* outcome of the ssh process.
SpecRemote == InitRemote /\ [][NextRemote]_vars

\* ------------------------------------- deploy_vm seen from its configuration
\* What deploy_vm and install_domain_with_virt_install derive from
\* cfg.base_image_format, cfg.domain_name and the two network names: the
\* disk helper that is called, the volumes handed to install, the cloud-init
\* uploads, the virt-install command line and the network asked for the
\* address.
\* is_iso = cfg.base_image_format.lower() == "iso" (deploy_vm.py 107).
IsIsoFormat(fmt) == Lower(fmt) = "iso"
\* The helper deploy_vm calls for the primary disk.
DiskBranch(fmt) == IF IsIsoFormat(fmt) THEN "create_blank_disk" ELSE "create_linked_clone_disk"
\* cdrom_volume_name: the base volume for an iso image, else None.
CdromVolume(fmt) == IF IsIsoFormat(fmt) THEN BaseVol ELSE "none"
\* `if not cdrom_volume_name:` guards the uploads, --import and --cloud-init.
UsesCloudInit(cdrom) == cdrom = "none"

\* One --disk argument of virt-install.
DiskArg(v, dev, bus, ro) == [vol |-> v, device |-> dev, bus |-> bus, readonly |-> ro]
DiskArgs(disk, cdrom) ==
    IF cdrom # "none"
    THEN << DiskArg(disk, "disk", "virtio", FALSE), DiskArg(cdrom, "cdrom", "sata", TRUE) >>
    ELSE << DiskArg(disk, "disk", "virtio", FALSE) >>

\* Faulty variant of BootOrder: the install media is booted first.
BootOrder_cdromFirst(cdrom) == IF cdrom # "none" THEN << "cdrom", "hd" >> ELSE << "hd" >>

\* --boot=boot0.dev=hd,boot1.dev=cdrom for an iso image, else --boot=hd.
BootOrder(cdrom) == IF cdrom # "none" THEN << "hd", "cdrom" >> ELSE << "hd" >>

NetworkArgs(primary, isolated) ==
    IF isolated # "none" THEN << primary, isolated >> ELSE << primary >>

\* --import and --cloud-init=user-data=...,network-config=... name the two
\* remote cloud-init files.
CloudInitArgs(cdrom) ==
    IF UsesCloudInit(cdrom) THEN << "--import", "--cloud-init" >> \o CloudInitFiles ELSE << >>

\* target_network = cfg.isolated_network if cfg.isolated_network else
\* cfg.primary_network (deploy_vm.py 168-170).
TargetNetwork(isolated, primary) == IF isolated # "none" THEN isolated ELSE primary

NoCmd == [disks |-> << >>, networks |-> << >>, cloudinit |-> << >>, boot |-> << >>,
          extra |-> << >>]
NewPlan(fmt, d, isolated, extra) ==
    [pc |-> "disk", fmt |-> fmt, name |-> d, primary |-> "default", isolated |-> isolated,
     extra |-> extra, branch |-> "none", disk |-> "none", cdrom |-> "none",
     rcs |-> << >>, uploads |-> << >>, cmd |-> NoCmd, target |-> "none", exc |-> "none"]

\* Step 4 of deploy_vm: the disk helper for the format; the helper returns
\* the path of <domain>.qcow2 or raises.
plan_disk ==
    /\ inst.pc = "disk"
    /\ \E r \in {"ok", "err"} :
         inst' = IF r = "ok"
                 THEN [inst EXCEPT !.pc = "upload", !.branch = DiskBranch(inst.fmt),
                         !.disk = DiskName(inst.name), !.cdrom = CdromVolume(inst.fmt)]
                 ELSE [inst EXCEPT !.pc = "raised", !.branch = DiskBranch(inst.fmt),
                         !.exc = "RuntimeError"]
    /\ UNCHANGED << dvars, up, dl, net, rem, auto >>

\* The uploads file by file until one raises.
UploadsDone(rcs) ==
    IF rcs = << >> \/ UploadRaises(rcs[1]) THEN << >>
    ELSE IF Len(rcs) = 1 \/ UploadRaises(rcs[2]) THEN << CloudInitFiles[1] >>
    ELSE CloudInitFiles

\* Step 2/3 of install: the two uploads unless install media is used.
plan_upload ==
    /\ inst.pc = "upload"
    /\ IF UsesCloudInit(inst.cdrom)
       THEN \E rcs \in {<< a >> : a \in UploadRcs \ {0}}
                       \cup {<< 0, b >> : b \in UploadRcs} :
              inst' = [inst EXCEPT !.rcs = rcs, !.uploads = UploadsDone(rcs),
                         !.pc = IF Len(UploadsDone(rcs)) = Len(CloudInitFiles)
                                THEN "command" ELSE "raised",
                         !.exc = IF Len(UploadsDone(rcs)) = Len(CloudInitFiles)
                                 THEN "none" ELSE "RuntimeError"]
       ELSE inst' = [inst EXCEPT !.pc = "command"]
    /\ UNCHANGED << dvars, up, dl, net, rem, auto >>

\* The virt-install command line (install.py 110-186).
plan_command ==
    /\ inst.pc = "command"
    /\ inst' = [inst EXCEPT !.pc = "network",
                  !.cmd = [disks |-> DiskArgs(inst.disk, inst.cdrom),
                           networks |-> NetworkArgs(inst.primary, inst.isolated),
                           cloudinit |-> CloudInitArgs(inst.cdrom),
                           boot |-> BootOrder(inst.cdrom),
                           extra |-> inst.extra]]
    /\ UNCHANGED << dvars, up, dl, net, rem, auto >>

\* Step 6 of deploy_vm: the network whose leases are read.
plan_network ==
    /\ inst.pc = "network"
    /\ inst' = [inst EXCEPT !.pc = "done",
                  !.target = TargetNetwork(inst.isolated, inst.primary)]
    /\ UNCHANGED << dvars, up, dl, net, rem, auto >>

InitPlan ==
    /\ DeployInit /\ pool.st = "absent"
    /\ up = NoUpload /\ dl = NoFetch /\ net = NoResolve /\ rem = NoRemote /\ auto = NoAuto
    /\ inst \in {NewPlan(f, d, i, x) : f \in {"iso", "ISO", "qcow2", "raw"}, d \in DomNames,
                                      i \in {"none", "isolated"},
                                      x \in {<< >>, << "--debug" >>}}

NextPlan ==
    \/ plan_disk
    \/ plan_upload
    \/ plan_command
    \/ plan_network

\* One deploy_vm call for each configuration, as far as its configuration
\* decides what it does.
SpecPlan == InitPlan /\ [][NextPlan]_vars

\* ------------------------------------------------------------ specification
Step(p) ==
    \/ \E d \in Deployed, f \in Formats : deploy_vm_begin(p, d, f)
    \/ \E d \in DomNames : delete_vm_begin(p, d)
    \/ connect_libvirt(p)
    \/ get_or_create_pool_lookup(p)
    \/ get_or_create_pool_activate(p)
    \/ get_or_create_pool_gid(p)
    \/ get_or_create_pool_define(p)
    \/ get_or_create_pool_build(p)
    \/ get_or_create_pool_autostart(p)
    \/ get_or_create_pool_create(p)
    \/ get_or_create_pool_undefine(p)
    \/ ensure_volume_lookup(p)
    \/ ensure_volume_download(p)
    \/ ensure_volume_gid(p)
    \/ ensure_volume_createXML(p)
    \/ ensure_volume_upload(p)
    \/ ensure_volume_send(p)
    \/ ensure_volume_finish(p)
    \/ ensure_volume_cleanup(p)
    \/ create_disk_probe(p)
    \/ create_disk_qemu_img(p)
    \/ create_disk_refresh(p)
    \/ install_lookup(p)
    \/ install_upload(p)
    \/ install_virt_install(p)
    \/ install_cleanup(p)
    \/ get_ip_preconditions(p)
    \/ get_ip_poll(p)
    \/ delete_vm_lookup(p)
    \/ delete_vm_destroy(p)
    \/ delete_vm_xml(p)
    \/ delete_vm_undefine(p)
    \/ delete_vm_find_volume(p)
    \/ delete_vm_delete_volume(p)
    \/ close_connection(p)
    \/ Kill(p)

\* One caller issuing deploy and destroy calls one after the other.
Next == \E p \in SeqProcs : Step(p)

Spec == Init /\ [][Next]_vars

\* ------------------------------------------------- two deploys side by side
\* Two processes, each running one deploy_vm for its own domain name with
\* the same pool name and the same qcow2 base image, their libvirt calls and
\* remote commands interleaved in every order.  Each call is followed up to
\* the return of ensure_volume_from_file.
ConcName(p) == IF p = 1 THEN "d1" ELSE "d2"

conc_begin(p) ==
    /\ call[p].kind = "none"
    /\ deploy_vm_begin(p, ConcName(p), "qcow2")

InitConc ==
    /\ Init
    /\ dom = [d \in DomNames |-> NoDom]

NextConc ==
    \E p \in Procs :
        \/ conc_begin(p)
        \/ connect_libvirt(p)
        \/ get_or_create_pool_lookup(p)
        \/ get_or_create_pool_activate(p)
        \/ get_or_create_pool_gid(p)
        \/ get_or_create_pool_define(p)
        \/ get_or_create_pool_build(p)
        \/ get_or_create_pool_autostart(p)
        \/ get_or_create_pool_create(p)
        \/ get_or_create_pool_undefine(p)
        \/ ensure_volume_lookup(p)
        \/ ensure_volume_download(p)
        \/ ensure_volume_gid(p)
        \/ ensure_volume_createXML(p)
        \/ ensure_volume_upload(p)
        \/ ensure_volume_send(p)
        \/ ensure_volume_finish(p)
        \/ ensure_volume_cleanup(p)
        \/ close_connection(p)

SpecConc == InitConc /\ [][NextConc]_vars

\* ----------------------------------------------------------- deploy_vm_auto
\* deploy_vm_auto(host, ssh_key): the environment is read, the remote
\* scratch directory is made, deploy_vm runs for a fresh domain name, and
\* the finally clause removes the directory.
\* The image format derived from the suffix of CLAN_BASE_IMAGE.
ImageFormat(suffix) ==
    IF suffix \in {"qcow2", "qcow"} THEN "qcow2"
    ELSE IF suffix = "iso" THEN "iso" ELSE "raw"

\* Faulty variant of AfterMktemp: deploy_vm runs without the directory.
AfterMktemp_always(r) == "deploy"

\* create_remote_tmp_dir raises what run_remote_command raised, so the try
\* block is left before deploy_vm; otherwise deploy_vm is called.
AfterMktemp(r) == IF r = "ok" THEN "deploy" ELSE "done"

\* Faulty variant of AutoOutcome: a failed removal replaces the outcome.
AutoOutcome_masking(o, r) ==
    IF r = "ok" THEN o
    ELSE [res |-> "err", exc |-> Exc(RemoteRaises(r), "rm -rf"), ip |-> "none"]

\* What deploy_vm_auto returns or raises when deploy_vm ended with outcome
\* o and the removal of the directory answered r: run_remote_command is
\* called with check=False inside try/except Exception.
AutoOutcome(o, r) == o

NewAuto == [pc |-> "env", fmt |-> "none", dir |-> "none", rms |-> 0, rm |-> "none",
            out |-> NoOut]

\* Lines 226-275: CLAN_BASE_IMAGE and the cloud-init assets.
auto_prepare ==
    /\ auto.pc = "env"
    /\ \E image \in {"unset", "qcow2", "iso", "img"}, assets \in BOOLEAN :
         auto' = IF image = "unset"
                 THEN [auto EXCEPT !.pc = "done",
                         !.out = [res |-> "err", exc |-> Exc("ValueError", "env"), ip |-> "none"]]
                 ELSE IF ~assets
                 THEN [auto EXCEPT !.pc = "done", !.fmt = ImageFormat(image),
                         !.out = [res |-> "err", exc |-> Exc("RuntimeError", "assets"), ip |-> "none"]]
                 ELSE [auto EXCEPT !.pc = "mktemp", !.fmt = ImageFormat(image)]
    /\ UNCHANGED << dvars, up, dl, net, rem, inst >>

\* create_remote_tmp_dir: mktemp -d on the remote host.
auto_mktemp ==
    /\ auto.pc = "mktemp"
    /\ \E r \in {"ok", "nonzero", "timeout", "no_ssh"} :
         auto' = [auto EXCEPT !.pc = AfterMktemp(r),
                    !.dir = IF r = "ok" THEN "made" ELSE "none",
                    !.out = IF r = "ok" THEN NoOut
                            ELSE [res |-> "err", exc |-> Exc(RemoteRaises(r), "mktemp"),
                                  ip |-> "none"]]
    /\ UNCHANGED << dvars, up, dl, net, rem, inst >>

\* deploy_vm(cfg, ssh_key) for the fresh domain name.
auto_deploy ==
    /\ auto.pc = "deploy" /\ ncalls = 0
    /\ deploy_vm_begin(1, "d1", auto.fmt)

\* finally: `if remote_tmp_dir:` rm -rf, errors logged only.
auto_cleanup ==
    /\ auto.pc = "deploy" /\ ncalls = 1
    /\ pc[1] = "idle" /\ out[1].res \in {"ok", "err"}
    /\ \E r \in {"ok", "nonzero", "timeout", "no_ssh"} :
         /\ auto' = [auto EXCEPT !.pc = "done", !.rms = @ + 1, !.rm = r,
                       !.dir = IF r = "ok" THEN "removed" ELSE @,
                       !.out = AutoOutcome(out[1], r)]
         /\ scratch' = IF r = "ok" THEN [d \in DomNames |-> {}] ELSE scratch
    /\ UNCHANGED << pool, vol, dom, lease, nextGen, pc, cvars, lv, exc, ops, meta, hist >>
    /\ UNCHANGED << up, dl, net, rem, inst >>

InitAuto ==
    /\ DeployInit
    /\ up = NoUpload /\ dl = NoFetch /\ net = NoResolve /\ rem = NoRemote /\ inst = NoPlan
    /\ auto = NewAuto

NextAuto ==
    \/ auto_prepare
    \/ auto_mktemp
    \/ auto_deploy
    \/ connect_libvirt(1)
    \/ get_or_create_pool_lookup(1)
    \/ get_or_create_pool_activate(1)
    \/ get_or_create_pool_gid(1)
    \/ get_or_create_pool_define(1)
    \/ get_or_create_pool_build(1)
    \/ get_or_create_pool_autostart(1)
    \/ get_or_create_pool_create(1)
    \/ get_or_create_pool_undefine(1)
    \/ ensure_volume_lookup(1)
    \/ ensure_volume_download(1)
    \/ ensure_volume_gid(1)
    \/ ensure_volume_createXML(1)
    \/ ensure_volume_upload(1)
    \/ ensure_volume_send(1)
    \/ ensure_volume_finish(1)
    \/ ensure_volume_cleanup(1)
    \/ create_disk_probe(1)
    \/ create_disk_qemu_img(1)
    \/ create_disk_refresh(1)
    \/ install_lookup(1)
    \/ install_upload(1)
    \/ install_virt_install(1)
    \/ install_cleanup(1)
    \/ get_ip_preconditions(1)
    \/ get_ip_poll(1)
    \/ close_connection(1)
    \/ auto_cleanup

\* One automatic deploy from its first line to the end of its finally
\* clause.
SpecAuto == InitAuto /\ [][NextAuto]_vars

\* The process of the automatic deploy runs on until it returns or raises:
\* every step is a call that returns.
SpecAutoFair == SpecAuto /\ WF_vars(NextAuto)

\* ------------------------------------------------------------- properties
\* The call of p has run to its end (returned or raised; not interrupted).
Finished(p) == pc[p] = "idle" /\ out[p].res \in {"ok", "err"}
\* The call of p has started, so snap[p] holds the hypervisor state it met.
Started(p) == pc[p] # "idle" \/ Finished(p)
IsDeploy(p) == call[p].kind = "deploy" /\ Started(p)
IsDestroy(p) == call[p].kind = "destroy" /\ Started(p)
snapPool(p) == snap[p][1]
snapVol(p) == snap[p][2]
snapDom(p) == snap[p][3]
snapScratch(p) == snap[p][5]
\* Operation o was issued in the call of p (with answer r).
Did(p, o) == \E i \in DOMAIN ops[p] : ops[p][i].op = o
DidWith(p, o, r) == \E i \in DOMAIN ops[p] : ops[p][i].op = o /\ ops[p][i].res = r
DidOn(p, o, a) == \E i \in DOMAIN ops[p] : ops[p][i].op = o /\ ops[p][i].arg = a
\* The i-th operation of the call, once issued, is o.
NextOpIs(p, i, o) == Len(ops[p]) >= i => ops[p][i].op = o
\* Some operation o of the call precedes its j-th operation.
Before(p, o, r, j) ==
    \E i \in DOMAIN ops[p] : i < j /\ ops[p][i].op = o /\ ops[p][i].res = r

\* The volumes a domain descriptor names, and the base images behind them.
WiredVols(d) == {dom[d].disks[i].vol : i \in DOMAIN dom[d].disks}
BackingOf(V) == {vol[v].backing : v \in V} \ {"none"}

\* C1: every volume that a domain defined by deploy references (its disk,
\* its installation media, the base volume backing its disk) holds its
\* whole content and has been followed by a pool refresh, whatever deploys
\* (failed, interrupted, re-run) came before.
C1_WiredVolumesComplete ==
    \A d \in DomNames :
        dom[d].st # "absent" /\ dom[d].by = "deploy" =>
            \A v \in WiredVols(d) \cup BackingOf(WiredVols(d)) :
                vol[v].file = "complete" /\ vol[v].fresh

\* The deploy stage an operation belongs to; conn.close() is the finally
\* clause, after every stage.
StageOf(o) ==
    CASE o = "connect" -> 1
      [] o \in {"pool.lookup", "pool.activate", "pool.gid", "pool.define",
                "pool.build", "pool.autostart", "pool.create", "pool.undefine"} -> 2
      [] o \in {"vol.lookup", "download_file", "vol.gid", "vol.createXML",
                "vol.upload", "stream.send", "stream.finish", "stream.abort",
                "vol.rollback"} -> 3
      [] o \in {"disk.path", "test -f", "qemu-img", "pool.refresh"} -> 4
      [] o \in {"inst.lookup", "upload", "virt-install", "rm -f"} -> 5
      [] o \in {"ip.preconditions", "DHCPLeases"} -> 6
      [] OTHER -> 7
StageNo(s) ==
    CASE s = "connect" -> 1 [] s = "pool" -> 2 [] s = "volume" -> 3
      [] s = "disk" -> 4 [] s = "install" -> 5 [] s = "ip" -> 6 [] OTHER -> 0
\* The stage of the last operation of the call of p that is not the close
\* (the close, when issued, is the last operation).
LastStage(p) ==
    LET n == Len(ops[p])
        m == IF n > 0 /\ ops[p][n].op = "conn.close" THEN n - 1 ELSE n
    IN  IF m = 0 THEN 0 ELSE StageOf(ops[p][m].op)

\* C2: deploy runs its stages in the order connect, pool, base volume, disk,
\* install, IP: the first operation is the connect, each operation belongs
\* to the stage of the one before it or to the next stage, nothing but the
\* closing of the connection follows the last stage; once a stage has
\* raised, no operation of a later stage is issued, and the call raises the
\* error of the stage that ran last; a call that returns ran all six.
C2_StagesInOrder ==
    \A p \in SeqProcs :
        IsDeploy(p) =>
            /\ \A i \in DOMAIN ops[p] :
                 /\ i = 1 => StageOf(ops[p][i].op) = 1
                 /\ i > 1 => \/ StageOf(ops[p][i].op) = StageOf(ops[p][i - 1].op)
                             \/ StageOf(ops[p][i].op) = StageOf(ops[p][i - 1].op) + 1
                             \/ StageOf(ops[p][i].op) = 7
            /\ exc[p] # NoExc =>
                 /\ StageNo(exc[p].stage) = LastStage(p)
                 /\ pc[p] \in {"finally", "idle", "inst_cleanup"}
            /\ Finished(p) =>
                 /\ out[p].exc = exc[p]
                 /\ out[p].res = "err" <=> exc[p] # NoExc
                 /\ out[p].res = "ok" => LastStage(p) = 6 /\ out[p].ip # "none"

\* A deploy whose disk stage raised after the pool and volume stages ran.
C2_Witness ==
    \E p \in SeqProcs :
        /\ IsDeploy(p) /\ Finished(p)
        /\ out[p].exc.stage = "disk"
        /\ Did(p, "pool.lookup") /\ Did(p, "vol.lookup") /\ Did(p, "conn.close")

\* C3: a call that opened a connection has called close on it exactly once
\* by the time it returns or raises.
C3_ClosedExactlyOnce ==
    \A p \in SeqProcs : Finished(p) => sess[p] = 0 /\ closes[p] <= 1

\* C4: a destroy whose lookup reports that the domain does not exist returns
\* success having issued nothing but the connect, the lookup and the close,
\* and leaves the hypervisor as it found it; a destroy that follows a
\* successful destroy of the same domain finds no domain (so it succeeds
\* and changes nothing).
C4_DestroyAbsentIsNoop ==
    \A p \in SeqProcs :
        IsDestroy(p) /\ Finished(p) =>
            /\ lv[p].lookup = "NO_DOMAIN" =>
                 /\ out[p].res = "ok"
                 /\ hv = snap[p]
                 /\ \A i \in DOMAIN ops[p] :
                      ops[p][i].op \in {"connect", "dom.lookup", "conn.close"}
            /\ (lv[p].again /\ lv[p].lookup # "none") => lv[p].lookup = "NO_DOMAIN"

\* A second destroy in a row of the same domain that has returned.
C4_Witness ==
    \E p \in SeqProcs :
        /\ IsDestroy(p) /\ Finished(p)
        /\ lv[p].again
        /\ lv[p].lookup = "NO_DOMAIN"
        /\ out[p].res = "ok"
        /\ snapDom(p) # [d \in DomNames |-> NoDom]

\* C5: when the force-stop of a running domain fails, destroy raises; it
\* issues no descriptor read, undefine, volume lookup or volume deletion,
\* and the domain and every volume stay as they were.
C5_StopFailureAborts ==
    \A p \in SeqProcs :
        IsDestroy(p) /\ DidWith(p, "dom.destroy", "err") =>
            /\ exc[p] = Exc("RuntimeError", "stop")
            /\ pc[p] \in {"finally", "idle"}
            /\ ~Did(p, "dom.XMLDesc") /\ ~Did(p, "dom.undefine")
            /\ ~Did(p, "vol.find") /\ ~Did(p, "vol.delete")
            /\ dom = snapDom(p) /\ vol = snapVol(p)
            /\ Finished(p) => out[p].res = "err"

\* A destroy of a running domain that raised because the stop failed.
C5_Witness ==
    \E p \in SeqProcs :
        /\ IsDestroy(p) /\ Finished(p)
        /\ snapDom(p)[Name(p)].st = "running"
        /\ DidWith(p, "dom.destroy", "err")
        /\ out[p].res = "err"

\* C6: destroy reads the disk references from the descriptor before it
\* undefines the domain, and looks up or deletes a volume only after the
\* undefine succeeded; when the undefine fails destroy raises with every
\* volume left as it was.
C6_DeleteOnlyAfterUndefine ==
    \A p \in SeqProcs :
        IsDestroy(p) =>
            /\ \A j \in DOMAIN ops[p] :
                 /\ ops[p][j].op = "dom.undefine" =>
                      \E i \in DOMAIN ops[p] : i < j /\ ops[p][i].op = "dom.XMLDesc"
                 /\ ops[p][j].op \in {"vol.find", "vol.path", "vol.delete"} =>
                      Before(p, "dom.undefine", "ok", j)
            /\ DidWith(p, "dom.undefine", "err") =>
                 /\ exc[p] = Exc("RuntimeError", "undefine")
                 /\ pc[p] \in {"finally", "idle"}
                 /\ ~Did(p, "vol.delete")
                 /\ vol = snapVol(p)
                 /\ dom[Name(p)].st # "absent"
                 /\ Finished(p) => out[p].res = "err"
            /\ ~DidWith(p, "dom.undefine", "ok") => vol = snapVol(p)

\* A destroy that raised because the undefine failed, of a domain whose
\* descriptor named volumes.
C6_Witness ==
    \E p \in SeqProcs :
        /\ IsDestroy(p) /\ Finished(p)
        /\ DidWith(p, "dom.undefine", "err")
        /\ lv[p].refs # << >>
        /\ out[p].res = "err"

\* C7: once the undefine succeeded, destroy attempts the delete of every
\* volume it resolved, whatever earlier lookup or delete failed, and
\* returns success.
C7_EveryVolumeAttempted ==
    \A p \in SeqProcs :
        IsDestroy(p) /\ Finished(p) /\ DidWith(p, "dom.undefine", "ok") =>
            /\ out[p].res = "ok"
            /\ \A k \in DOMAIN lv[p].todel : DidOn(p, "vol.delete", lv[p].todel[k])

\* C8: when get_or_create_pool has returned, the pool it returned is
\* defined and active: a pool found active is returned untouched, a pool
\* found inactive has been activated, an absent pool has been defined,
\* built, set to autostart and activated, in that order; a call that
\* follows one that returned defines and builds nothing and returns the
\* same pool.
C8_PoolReturnedActive ==
    \A p \in SeqProcs :
        IsDeploy(p) /\ lv[p].poolRet # 0 =>
            /\ pool.st = "active" /\ pool.gen = lv[p].poolRet
            /\ snapPool(p).st = "active" =>
                 /\ ops[p][2] = Op("pool.lookup", "", "found")
                 /\ NextOpIs(p, 3, "vol.lookup")
            /\ snapPool(p).st = "inactive" =>
                 /\ ops[p][3] = Op("pool.activate", "", "ok")
                 /\ NextOpIs(p, 4, "vol.lookup")
            /\ snapPool(p).st = "absent" =>
                 /\ ops[p][4] = Op("pool.define", "", "ok")
                 /\ ops[p][5].op = "pool.build"
                 /\ ops[p][6] = Op("pool.autostart", "", "ok")
                 /\ ops[p][7] = Op("pool.create", "", "ok")
                 /\ NextOpIs(p, 8, "vol.lookup")
                 /\ pool.auto
            /\ snapPool(p).st # "absent" =>
                 /\ pool.gen = snapPool(p).gen
                 /\ ~Did(p, "pool.define") /\ ~Did(p, "pool.build")
            /\ lv[p].prevPool # 0 =>
                 /\ lv[p].poolRet = lv[p].prevPool
                 /\ ~Did(p, "pool.define") /\ ~Did(p, "pool.build")

\* A deploy that follows one that was returned the pool, and is returned
\* the same pool.
C8_Witness ==
    \E p \in SeqProcs :
        /\ IsDeploy(p) /\ Finished(p)
        /\ lv[p].prevPool # 0
        /\ lv[p].poolRet = lv[p].prevPool
        /\ ops[p][2] = Op("pool.lookup", "", "found")
        /\ pool.st = "active"

BaseContent(V) == << V[BaseVol].file, V[BaseVol].gen >>

\* C10: when ensure_volume_from_file finds the volume it returns it as it
\* is: nothing is fetched, defined, uploaded or rolled back and the volume
\* keeps its content; a call that follows one that returned finds the
\* volume and returns the same one.
C10_ExistingVolumeReturned ==
    \A p \in SeqProcs :
        IsDeploy(p) =>
            /\ DidWith(p, "vol.lookup", "found") =>
                 /\ lv[p].baseFound /\ lv[p].baseRet = vol[BaseVol].gen
                 /\ \A i \in DOMAIN ops[p] :
                      StageOf(ops[p][i].op) = 3 => ops[p][i].op = "vol.lookup"
                 /\ BaseContent(vol) = BaseContent(snapVol(p))
            /\ (lv[p].prevBase # 0 /\ Did(p, "vol.lookup") /\ ~DidWith(p, "vol.lookup", "err")) =>
                 /\ DidWith(p, "vol.lookup", "found")
                 /\ lv[p].baseRet = lv[p].prevBase

\* A deploy that follows one that was returned the base volume: it finds
\* the volume and is returned the same one.
C10_Witness ==
    \E p \in SeqProcs :
        /\ IsDeploy(p) /\ Finished(p)
        /\ lv[p].prevBase # 0 /\ lv[p].baseRet = lv[p].prevBase
        /\ DidWith(p, "vol.lookup", "found")
        /\ out[p].res = "ok"

\* The j-th operation of the call of p is a step of the upload that failed
\* after the volume was defined.
UploadStepFailed(p, j) ==
    \/ ops[p][j].op = "vol.upload" /\ ops[p][j].res # "ok"
    \/ ops[p][j].op = "stream.send" /\ ops[p][j].res \in {"minus1", "err"}
    \/ ops[p][j].op = "stream.finish" /\ ops[p][j].res # "ok"

\* C11: when the opening of the stream, the send of a chunk or the finish
\* of the stream fails after the base volume was defined, the next
\* operations are the abort of the stream (when one was opened) and the
\* delete of the volume, and only then is the error of the volume stage
\* raised; when that delete succeeded the pool holds no base volume.
C11_UploadRollback ==
    \A p \in SeqProcs :
        IsDeploy(p) =>
            /\ \A j \in DOMAIN ops[p] :
                 UploadStepFailed(p, j) =>
                     IF j = Len(ops[p])
                     THEN pc[p] = "vol_cleanup" /\ exc[p] = NoExc
                     ELSE /\ ops[p][j].res # "newStream_fails" =>
                               /\ ops[p][j + 1].op = "stream.abort"
                               /\ ops[p][j + 2].op = "vol.rollback"
                          /\ ops[p][j].res = "newStream_fails" =>
                               ops[p][j + 1].op = "vol.rollback"
                          /\ exc[p] = Exc("RuntimeError", "volume")
            /\ (exc[p].stage = "volume" /\ lv[p].createdVol) => Did(p, "vol.rollback")
            /\ (exc[p].stage = "volume" /\ DidWith(p, "vol.rollback", "ok")) =>
                 vol[BaseVol] = NoVol

\* A deploy that raised after a chunk could not be sent and whose rollback
\* removed the volume it had defined.
C11_Witness ==
    \E p \in SeqProcs :
        /\ IsDeploy(p) /\ Finished(p)
        /\ DidWith(p, "vol.createXML", "ok")
        /\ DidWith(p, "stream.send", "err")
        /\ DidWith(p, "vol.rollback", "ok")
        /\ out[p].exc = Exc("RuntimeError", "volume")
        /\ vol[BaseVol] = NoVol

\* The number of imaging commands the call of p has run.
ImagingRuns(p) == Cardinality({i \in DOMAIN ops[p] : ops[p][i].op = "qemu-img"})

\* The answers of the existence probe that are neither "exists" nor "does
\* not exist": another exit code, or no exit code at all.
ProbeFailures == {"rc2", "rc255", "timeout"}

\* C12: the disk stage (linked clone or blank disk) runs no imaging command
\* when `test -f` finds the file and one imaging command when it does not;
\* either way the refresh of the pool is its last operation, made when the
\* file exists, and the path returned is the one of <name>.qcow2; a call
\* that starts with the file in place (left by an earlier call with the
\* same arguments) runs no imaging command and returns the same path.
C12_DiskCreatedOnce ==
    \A p \in SeqProcs :
        IsDeploy(p) =>
            /\ ImagingRuns(p) <= 1
            /\ \A j \in DOMAIN ops[p] :
                 /\ (ops[p][j].op = "test -f" /\ ops[p][j].res = "rc0") =>
                      /\ ImagingRuns(p) = 0
                      /\ IF j = Len(ops[p]) THEN pc[p] = "disk_refresh"
                         ELSE ops[p][j + 1].op = "pool.refresh"
                 /\ (ops[p][j].op = "test -f" /\ ops[p][j].res = "rc1") =>
                      IF j = Len(ops[p]) THEN pc[p] = "disk_qemu_img"
                      ELSE ops[p][j + 1].op = "qemu-img"
                 /\ (ops[p][j].op = "qemu-img" /\ ops[p][j].res = "ok") =>
                      IF j = Len(ops[p]) THEN pc[p] = "disk_refresh"
                      ELSE ops[p][j + 1].op = "pool.refresh"
                 /\ ops[p][j] = Op("pool.refresh", "", "ok") =>
                      /\ vol[DiskName(Name(p))].file # "none"
                      /\ vol[DiskName(Name(p))].reg /\ vol[DiskName(Name(p))].fresh
                      /\ lv[p].diskRet = DiskName(Name(p))
            /\ lv[p].diskRet # "none" => DidWith(p, "pool.refresh", "ok")
            /\ Did(p, "inst.lookup") => lv[p].diskRet = DiskName(Name(p))
            /\ (snapVol(p)[DiskName(Name(p))].file # "none" /\ Did(p, "test -f")
                  /\ ~\E r \in ProbeFailures : DidWith(p, "test -f", r)) =>
                 DidWith(p, "test -f", "rc0") /\ ImagingRuns(p) = 0

\* A deploy that met the disk left by an earlier deploy: no imaging command,
\* a refresh, and the path of the same disk.
C12_Witness ==
    \E p \in SeqProcs :
        /\ IsDeploy(p) /\ Finished(p)
        /\ snapVol(p)[DiskName(Name(p))].file = "complete"
        /\ DidWith(p, "test -f", "rc0")
        /\ ImagingRuns(p) = 0
        /\ DidWith(p, "pool.refresh", "ok")
        /\ lv[p].diskRet = DiskName(Name(p))

InstallPcs == {"inst_upload", "inst_run", "inst_cleanup"}
\* install has returned or raised in the call of p.
InstallExited(p) == Did(p, "inst.lookup") /\ pc[p] \notin InstallPcs

\* C14: in cloud-init mode, once a cloud-init file has been uploaded, the
\* delete of the scratch files has been attempted by the time install
\* returns or raises, whether the install command succeeded, failed or
\* timed out or the second upload failed.
C14_ScratchCleanupAttempted ==
    \A p \in SeqProcs :
        (IsDeploy(p) /\ ~IsIso(p) /\ DidWith(p, "upload", "rc0") /\ InstallExited(p)) =>
            Did(p, "rm -f")

\* C15: when the install command ran into its timeout, the exception
\* install raises is a timeout failure, of another type than the one it
\* raises for a non-zero exit of the command.
C15_TimeoutDistinct ==
    \A p \in SeqProcs :
        (IsDeploy(p) /\ InstallExited(p)
           /\ (DidWith(p, "virt-install", "timeout")
                 \/ DidWith(p, "virt-install", "timeout_defined"))) =>
            /\ exc[p].stage = "install"
            /\ exc[p].type = "TimeoutError"
            /\ exc[p].type # InstallFailure("nonzero").type

\* The j-th operation of the call is an upload whose remote command failed.
UploadFailedAt(p, j) == ops[p][j].op = "upload" /\ ops[p][j].res # "rc0"

\* C16: upload returns normally only when the remote remove-and-extract
\* command exited with 0 (a failed or partial extraction raises); when an
\* upload of a cloud-init file fails, install raises its upload failure at
\* once and the install command is never run, so the install command runs
\* in cloud-init mode only after both files were extracted.
C16_UploadFailureSurfaces ==
    \A p \in SeqProcs :
        IsDeploy(p) =>
            /\ \A f \in lv[p].uploaded :
                 \E j \in DOMAIN ops[p] : ops[p][j] = Op("upload", f, "rc0")
            /\ \A j \in DOMAIN ops[p] :
                 /\ UploadFailedAt(p, j) =>
                      /\ j = Len(ops[p]) \/ ops[p][j + 1].op = "conn.close"
                      /\ exc[p] = Exc("RuntimeError", "install")
                      /\ ~Did(p, "virt-install")
                      /\ ops[p][j].arg \notin lv[p].uploaded
                 /\ (ops[p][j].op = "upload" /\ ops[p][j].res = "rc0") =>
                      ops[p][j].arg \in lv[p].uploaded
            /\ (Did(p, "virt-install") /\ ~IsIso(p)) =>
                 \A k \in DOMAIN CloudInitFiles : CloudInitFiles[k] \in lv[p].uploaded

\* A deploy that raised because the second upload left a part-written
\* file, without running the install command.
C16_Witness ==
    \E p \in SeqProcs :
        /\ IsDeploy(p) /\ Finished(p)
        /\ DidWith(p, "upload", "rc0") /\ DidWith(p, "upload", "rc2")
        /\ "network-config" \in scratch[Name(p)]
        /\ out[p].exc = Exc("RuntimeError", "install")
        /\ ~Did(p, "virt-install")

\* The first components under which a destination two levels deep is
\* accepted: /tmp/, /root/, /etc/.
SafeRoots == {"tmp", "root", "etc"}
\* The rule for a destination with the root "/" and n components below it.
SafeDestination(d) ==
    \/ Len(d.comps) >= 3
    \/ Len(d.comps) >= 2 /\ d.comps[1] \in SafeRoots
UploadRejected == up.exc = Exc("ValueError", "depth")

\* C17: a directory upload to a destination below the root is rejected if
\* and only if the destination is neither three components deep nor two
\* components deep under /tmp/, /root/ or /etc/; a rejected upload has
\* built no archive and run no remote command, and the destination is as
\* it was.  An upload of a file is never rejected for its destination.
C17_UnsafeDestinationRule ==
    up.pc \notin {"off", "check"} =>
        /\ (up.src = "dir" /\ up.dest.abs) =>
             (UploadRejected <=> ~SafeDestination(up.dest))
        /\ up.src # "dir" => ~UploadRejected
        /\ UploadRejected =>
             /\ up.pc = "done"
             /\ ~up.tar
             /\ up.cmds = << >>
             /\ up.remote = "old"

\* A directory upload to a destination two levels deep outside the three
\* prefixes was rejected.
C17_Witness ==
    /\ up.pc = "done"
    /\ up.src = "dir" /\ up.dest.abs /\ Len(up.dest.comps) = 2
    /\ up.dest.comps[1] \notin SafeRoots
    /\ UploadRejected

\* Operation o was issued by the call of download_file (with answer r).
FetchDidWith(o, r) == \E i \in DOMAIN dl.ops : dl.ops[i] = Op(o, "", r)
\* The copies and downloads the call started.
Fetches == Cardinality({i \in DOMAIN dl.ops : dl.ops[i].op \in {"copy", "urlopen"}})
\* The source was copied or downloaded in full.
Fetched == FetchDidWith("copy", "ok") \/ FetchDidWith("urlopen", "ok")
\* The checksum given is the digest, in either letter case, of content c.
DigestOf(c) == IF c = "A" THEN {"ha", "HA"} ELSE {}

\* C18: when a copy or a download completed, a checksum was given and the
\* fetched content does not match it, download_file raises and no file is
\* left at the destination (unless the unlink itself failed).
C18_MismatchLeavesNoFile ==
    (dl.pc = "done" /\ Fetched /\ dl.checksum # "none"
       /\ dl.ops[Len(dl.ops)] # Op("verify", "", "match")
       /\ dl.srcData \notin {c \in Contents : dl.checksum \in DigestOf(c)}) =>
        /\ dl.exc # NoExc
        /\ dl.dest = "none" \/ dl.ops[Len(dl.ops)] = Op("unlink", "", "err")

\* The first thing the call did was to read the existing file through.
ExistingRead == Len(dl.ops) >= 1 /\ dl.ops[1].op = "verify" /\ dl.ops[1].res # "unreadable"

\* C19: when the destination exists with the content the checksum (in
\* either letter case) is the digest of, and the file could be read,
\* download_file returns without an exception, has copied, downloaded and
\* deleted nothing, and the file is as it was.
C19_MatchingFileKept ==
    (dl.dest0 # "none" /\ dl.checksum \in DigestOf(dl.dest0) /\ ExistingRead) =>
        /\ dl.pc = "done"
        /\ dl.exc = NoExc
        /\ dl.ops = << Op("verify", "", "match") >>
        /\ Fetches = 0
        /\ dl.dest = dl.dest0

\* A call given the upper-case digest of the existing file has returned.
C19_Witness ==
    /\ dl.pc = "done" /\ dl.exc = NoExc
    /\ dl.dest0 = "A" /\ dl.checksum = "HA"
    /\ dl.ops = << Op("verify", "", "match") >>
    /\ dl.dest = "A"

\* The destination existed with a content that does not match the checksum
\* given, and the call has found that out.
ExistingMismatch ==
    /\ dl.dest0 # "none" /\ dl.checksum # "none"
    /\ dl.checksum \notin DigestOf(dl.dest0)
    /\ ExistingRead
\* The local source was refused before any copy.
SourceRefused == dl.exc.stage = "source"

\* C20: when the destination exists and does not match the checksum, the
\* unlink of the existing file comes next (and, when it succeeds, the file
\* is gone before anything is fetched), then the source is fetched at most
\* once: exactly once by the time the call ends unless the local source
\* was refused; when the fetched content mismatches again the call ends
\* with the verification failure and that one fetch.
C20_RefetchOnce ==
    ExistingMismatch =>
        /\ dl.ops[1] = Op("verify", "", "mismatch")
        /\ Len(dl.ops) >= 2 => dl.ops[2].op = "unlink"
        /\ (Len(dl.ops) = 2 /\ dl.ops[2].res = "ok") => dl.dest = "none"
        /\ Fetches <= 1
        /\ dl.pc = "done" => (Fetches = 1 \/ (SourceRefused /\ Fetches = 0))
        /\ (dl.pc = "done" /\ Fetched /\ dl.srcData = dl.dest0) =>
             /\ dl.exc.stage = "checksum"
             /\ Fetches = 1

\* The existing file was deleted, the source fetched once, the content
\* mismatched again and the call raised the checksum failure.
C20_Witness ==
    /\ ExistingMismatch /\ dl.pc = "done"
    /\ dl.ops[2] = Op("unlink", "", "ok")
    /\ Fetched /\ Fetches = 1
    /\ FetchDidWith("verify", "mismatch")
    /\ dl.exc = Exc("ValueError", "checksum")

\* No attempt so far found a lease or met a libvirtError that ends the polling.
PollingOn == net.queries >= 1 /\ net.ret = "none" /\ (net.pc = "poll" \/ net.queries = net.retries)

\* C21: a call that never finds a matching lease and never meets a fatal
\* lease error has made `retries` lease queries when it ends (none for
\* retries = 0) and slept between consecutive attempts only: retries - 1
\* times in all and not after the last; it returns None and raises
\* nothing, and it always ends within `retries` attempts.
C21_RetriesExhausted ==
    /\ net.pc # "off" => (net.queries <= net.retries /\ net.attempt = net.queries)
    /\ (net.pc = "done" /\ net.retries = 0 /\ PreconditionsOk(net)) =>
         (net.queries = 0 /\ net.waits = 0 /\ net.ret = "none" /\ net.exc = NoExc)
    /\ PollingOn =>
         /\ net.waits = (IF net.queries < net.retries THEN net.queries ELSE net.retries - 1)
         /\ net.slept <=> net.queries < net.retries
         /\ net.queries = net.retries =>
              (net.pc = "done" /\ net.ret = "none" /\ net.exc = NoExc)

\* A call with retries = 3 ended after three queries without a lease for
\* the domain, the last of them an error that is not fatal.
C21_Witness ==
    /\ net.pc = "done" /\ net.retries = 3
    /\ net.queries = 3 /\ net.waits = 2
    /\ net.last.kind = "Exception"
    /\ net.ret = "none"

\* C22: when a lease query fails with a libvirtError saying that the
\* network is not active or that no DHCP server is running, the call
\* returns None right after that attempt: it is over, without a delay and
\* without a further query.
C22_FatalLeaseErrorAborts ==
    (net.pc \in {"poll", "done"} /\ net.last.kind = "libvirtError"
       /\ net.last.msg \in {"Network is not active", "DHCP server is not running"}) =>
        /\ net.pc = "done"
        /\ ~net.slept
        /\ net.ret = "none"

\* C23: when the domain or the network does not exist, or either is not
\* active, or the domain has no interface on the network (and isActive
\* answered), the call returns None at once: no lease query, no delay, no
\* exception.
C23_PreconditionsOnce ==
    (net.pc \in {"poll", "done"} /\ net.domSt # "gone"
       /\ \/ net.domSt \in {"absent", "shutoff"}
          \/ net.netSt \in {"absent", "inactive"}
          \/ \A i \in DOMAIN net.ifaces : net.ifaces[i].net # "net0") =>
        /\ net.pc = "done"
        /\ net.ret = "none"
        /\ net.queries = 0 /\ net.waits = 0
        /\ net.exc = NoExc

\* A call for a running domain whose only interface is on another network
\* has returned None without a query.
C23_Witness ==
    /\ net.pc = "done" /\ net.retries > 0
    /\ net.domSt = "running" /\ net.netSt = "active"
    /\ net.ifaces = << [net |-> "other", mac |-> "cc"] >>
    /\ net.ret = "none" /\ net.queries = 0

\* Lease l is an IPv4 lease with an address whose MAC is, letter case
\* aside, the MAC of an interface of the domain on the network.
LeaseOfDomain(l) ==
    /\ l.type = "ipv4" /\ l.ip # ""
    /\ \E k \in DOMAIN net.ifaces :
         net.ifaces[k].net = "net0" /\ Lower(net.ifaces[k].mac) = Lower(l.mac)

\* C24: the address an attempt returns is that of the first lease of the
\* table that is an IPv4 lease of the domain with an address; leases of
\* other MACs, IPv6 leases and leases without an address are never
\* returned; a table that holds such a lease ends the call in that very
\* attempt, the first attempt included.
C24_FirstMatchingLease ==
    /\ net.pc # "off" /\ net.ret # "none" =>
         /\ net.pc = "done" /\ net.exc = NoExc
         /\ net.last.kind = "leases"
         /\ \E i \in DOMAIN net.last.table :
              /\ net.last.table[i].ip = net.ret
              /\ LeaseOfDomain(net.last.table[i])
              /\ \A j \in 1..(i - 1) : ~LeaseOfDomain(net.last.table[j])
    /\ (net.pc # "off" /\ net.last.kind = "leases"
          /\ \E i \in DOMAIN net.last.table : LeaseOfDomain(net.last.table[i])) =>
         (net.ret # "none" /\ net.pc = "done")

\* The domain's interface has MAC AA, the first table starts with an IPv6
\* lease followed by the IPv4 lease of MAC aa, and its address came back
\* from the first attempt.
C24_Witness ==
    /\ net.pc = "done" /\ net.queries = 1
    /\ net.ifaces = << [net |-> "net0", mac |-> "AA"] >>
    /\ net.last.table = << [mac |-> "aa", ip |-> "fe80::5", type |-> "ipv6"],
                           [mac |-> "aa", ip |-> "10.0.0.6", type |-> "ipv4"] >>
    /\ net.ret = "10.0.0.6"

\* The call of run_remote_command is over.
RemoteOver == rem.pc \in {"returned", "raised", "install_raised"}
HasResult == rem.result.stdout # "unset" \/ rem.result.stderr # "unset" \/ rem.result.returncode # NoCode
HasError == rem.err.type # "none"

C26_StartedOnce ==
    /\ rem.pc \in {"argv", "run"} => rem.starts = 0
    /\ rem.pc \in {"finish", "returned", "raised", "install_raised"} => rem.starts = 1
    /\ (rem.pc = "install_raised" /\ rem.proc.kind = "no_ssh") =>
         rem.exc = "FileNotFoundError"

\* The call for virt-install found no ssh binary and install has raised.
C26_Witness ==
    /\ rem.pc = "install_raised" /\ rem.proc.kind = "no_ssh"
    /\ rem.starts = 1

\* deploy_vm has been entered by the automatic deploy.
Provisioning == ncalls > 0 \/ pc[1] # "idle" \/ ops[1] # << >> \/ conn[1] # "none"

\* What holds of the scratch directory in every state of deploy_vm_auto.
ScratchDirOrder ==
    /\ Provisioning => auto.dir # "none"
    /\ auto.rms <= 1
    /\ auto.rms = 1 => (Finished(1) /\ auto.pc = "done")
    /\ (auto.pc = "done" /\ auto.dir # "none") => auto.rms = 1
    /\ (auto.pc = "done" /\ auto.dir = "none") =>
         (~Provisioning /\ auto.rms = 0 /\ auto.out.res = "err")

\* C27: in the automatic deploy the remote scratch directory is made
\* before the connection to the hypervisor is opened and before any
\* provisioning step; once it is made, one removal of it is attempted
\* after deploy_vm has ended, whether it returned or raised; when making
\* it fails no provisioning step runs and no removal is attempted.
C27_ScratchDirFirstAndLast ==
    /\ []ScratchDirOrder
    /\ (auto.dir = "made") ~> (auto.rms = 1)

\* deploy_vm raised after some of its steps and the removal followed.
C27_Witness ==
    /\ auto.pc = "done" /\ auto.rms = 1
    /\ out[1].res = "err" /\ Len(ops[1]) > 2

\* What a finished deploy shows of its cleanup steps.
CleanupKeepsOutcome ==
    /\ Finished(1) =>
         /\ (DidWith(1, "rm -f", "err") /\ DidWith(1, "virt-install", "ok")) =>
              out[1].exc.stage \in {"none", "ip"}
         /\ Did(1, "vol.rollback") => out[1].exc = Exc("RuntimeError", "volume")
         /\ Did(1, "pool.undefine") => out[1].exc = Exc("RuntimeError", "pool")
    /\ (auto.pc = "done" /\ auto.rms = 1) => auto.out = out[1]

\* What a cleanup step does to the exception in flight.
CleanupStep ==
    /\ (pc[1] = "inst_cleanup" /\ pc'[1] # "inst_cleanup") =>
         (exc'[1] = exc[1] /\ pc'[1] = AfterInstall(exc[1]))
    /\ (pc[1] = "vol_cleanup" /\ pc'[1] # "vol_cleanup") =>
         (exc'[1] = Exc("RuntimeError", "volume") /\ pc'[1] = "finally")
    /\ (pc[1] = "pool_undefine" /\ pc'[1] # "pool_undefine") =>
         (exc'[1] = Exc("RuntimeError", "pool") /\ pc'[1] = "finally")
    /\ (auto.pc = "deploy" /\ auto'.pc = "done") =>
         (auto'.out = out[1] /\ out'[1] = out[1])

\* C28: a cleanup-only operation that fails (rm -rf of the scratch
\* directory, rm -f of the cloud-init files, the delete of the volume whose
\* upload failed, the undefine of the pool that could not be started) never
\* changes what the deploy returns or raises: the exception in flight
\* before the cleanup is the one the caller sees, and a deploy that
\* succeeded still returns its result.
C28_CleanupNeverDecides ==
    /\ []CleanupKeepsOutcome
    /\ [][CleanupStep]_vars

\* A deploy that returned an address although both removals failed.
C28_Witness ==
    /\ auto.pc = "done" /\ auto.rm = "nonzero"
    /\ DidWith(1, "rm -f", "err")
    /\ auto.out.res = "ok" /\ auto.out.ip # "none"

\* The last operation of the call of p is an existence check of kind o
\* that ended in an error of the check itself.
CheckFailedLast(p, o) ==
    /\ ops[p] # << >>
    /\ ops[p][Len(ops[p])].op = o
    /\ ops[p][Len(ops[p])].res \notin {"found", "absent", "rc0", "rc1"}

\* C29: an error of an existence check made inside deploy (the lookup of
\* the pool, the lookup of the base volume, the test -f probe for the disk
\* image, the lookup of the domain in install) never makes the deploy fail:
\* the deploy is never on its way out with an exception right after such a
\* check failed.
C29_ExistenceChecksNeverFail ==
    \A p \in Procs :
        (call[p].kind = "deploy" /\ pc[p] = "finally" /\ exc[p] # NoExc) =>
            \A o \in {"pool.lookup", "vol.lookup", "test -f", "inst.lookup"} :
                ~CheckFailedLast(p, o)

\* The operations by which deploy makes a pool, a volume, a disk image or
\* a domain, or runs the installation.
Creating ==
    {"pool.gid", "pool.define", "pool.build", "pool.autostart", "pool.create",
     "pool.activate", "download_file", "vol.gid", "vol.createXML", "vol.upload",
     "stream.send", "stream.finish", "qemu-img", "upload", "virt-install"}

C31_IsoTakesBlankDisk ==
    /\ inst.pc # "off" /\ inst.branch # "none" =>
         (inst.branch = "create_blank_disk") = (inst.fmt \in {"iso", "ISO"})
    /\ inst.pc \in {"network", "done"} =>
         IF inst.fmt \in {"iso", "ISO"}
         THEN /\ inst.cmd.disks = << DiskArg(DiskName(inst.name), "disk", "virtio", FALSE),
                                     DiskArg(BaseVol, "cdrom", "sata", TRUE) >>
              /\ inst.cmd.boot = << "hd", "cdrom" >>
              /\ inst.cmd.cloudinit = << >>
              /\ inst.uploads = << >> /\ inst.rcs = << >>
         ELSE /\ inst.cmd.disks = << DiskArg(DiskName(inst.name), "disk", "virtio", FALSE) >>
              /\ inst.cmd.boot = << "hd" >>
              /\ inst.uploads = CloudInitFiles
              /\ inst.cmd.cloudinit = << "--import", "--cloud-init" >> \o CloudInitFiles

\* The command line of an installation from an iso image is built.
C31_Witness ==
    /\ inst.pc = "done" /\ inst.fmt = "iso"
    /\ inst.branch = "create_blank_disk"
    /\ Len(inst.cmd.disks) = 2

C33_DestroyCleansFailedDeploy ==
    \A p \in SeqProcs :
        (IsDestroy(p) /\ Finished(p) /\ lv[p].afterFailed /\ out[p].res = "ok") =>
            /\ dom[call[p].name].st = "absent"
            /\ vol[DiskName(call[p].name)].file = "none"

\* C34: two deploys for different domain names that run at the same time
\* with the same pool and base image do not interfere: what a call found
\* when it looked up the pool or the base volume still holds when it acts
\* on it (so it cannot fail because of the other's provisioning, and ends
\* as it would after the other), and the pool and the base volume a call
\* was handed are not removed by the other call's rollback.
C34_ConcurrentDeploysIndependent ==
    \A p \in Procs :
        /\ pc[p] \in {"pool_gid", "pool_define"} => pool.st = "absent"
        /\ pc[p] \in {"pool_build", "pool_autostart", "pool_create"} => pool.st = "inactive"
        /\ pc[p] \in {"vol_download", "vol_gid", "vol_createXML"} => ~VolKnown(BaseVol)
        /\ (pc[p] = "disk_probe" /\ lv[p].poolRet # 0) =>
             (pool.gen = lv[p].poolRet /\ pool.st = "active")
        /\ (pc[p] = "disk_probe" /\ lv[p].baseRet # 0) =>
             (vol[BaseVol].gen = lv[p].baseRet /\ vol[BaseVol].file # "none")

\* C35: a pool that existed when a deploy or destroy call started is still
\* the same pool afterwards, still defined and still active if it was, and
\* the call never undefines it; a call undefines a pool only in a deploy
\* that met no pool, defined one itself and did not get it activated.
C35_ExistingPoolKept ==
    \A p \in SeqProcs :
        Started(p) =>
            /\ snapPool(p).st # "absent" =>
                 /\ pool.gen = snapPool(p).gen
                 /\ pool.st # "absent"
                 /\ snapPool(p).st = "active" => pool.st = "active"
                 /\ ~Did(p, "pool.undefine")
            /\ Did(p, "pool.undefine") =>
                 /\ call[p].kind = "deploy"
                 /\ snapPool(p).st = "absent"
                 /\ DidWith(p, "pool.define", "ok")
                 /\ ~DidWith(p, "pool.create", "ok")

C35_Witness ==
    \E p \in SeqProcs :
        /\ Finished(p) /\ DidWith(p, "pool.undefine", "ok")
        /\ pool.st = "absent" /\ snapPool(p).st = "absent"

\* C36: when ensure_volume_from_file created the base volume and returned
\* it, the upload stream accepted exactly the bytes of the local file (the
\* capacity the volume was defined with), whatever each send reported, and
\* a send that failed is never followed by a successful return.
C36_UploadedBytesEqualFileSize ==
    \A p \in SeqProcs :
        /\ DidWith(p, "stream.finish", "ok") => lv[p].stored = FileSize
        /\ (DidWith(p, "stream.send", "minus1") \/ DidWith(p, "stream.send", "err")) =>
             ~DidWith(p, "stream.finish", "ok")

\* The volumes the descriptor names in <disk> elements of device kind
\* 'disk'.
DiskVolsOf(disks) == {disks[i].vol : i \in {j \in DOMAIN disks : disks[j].dev = "disk"}}

\* C37: a destroy of domain D deletes only volumes that D's descriptor
\* references with device kind 'disk'; every other volume (the cdrom
\* medium, the base volume behind a linked clone, other domains' volumes),
\* the pool and the other domains are as the call found them.
C37_DestroyDeletesOnlyOwnDisks ==
    \A p \in SeqProcs :
        IsDestroy(p) =>
            LET own == DiskVolsOf(snapDom(p)[Name(p)].disks)
            IN  /\ \A i \in DOMAIN ops[p] :
                     ops[p][i].op = "vol.delete" => ops[p][i].arg \in own
                /\ \A v \in VolNames \ own : vol[v] = snapVol(p)[v]
                /\ pool = snapPool(p)
                /\ \A d \in DomNames \ {Name(p)} : dom[d] = snapDom(p)[d]

C37_Witness ==
    \E p \in SeqProcs :
        /\ IsDestroy(p) /\ Finished(p)
        /\ DidOn(p, "vol.delete", DiskName(Name(p)))
        /\ vol[DiskName(Name(p))] = NoVol
        /\ Disk("cdrom", "vol", BaseVol) \in
             {snapDom(p)[Name(p)].disks[i] : i \in DOMAIN snapDom(p)[Name(p)].disks}
        /\ vol[BaseVol].file # "none"

\* C38: when reading or parsing the descriptor fails in a destroy, the
\* call goes on to the undefine; nothing was collected, so no volume is
\* looked up or deleted and every volume stays as it was; once the
\* undefine succeeded the call returns success, the domain is gone and no
\* remaining domain references the volumes it had.
C38_DescriptorFailureStillUndefines ==
    \A p \in SeqProcs :
        (IsDestroy(p) /\ DidWith(p, "dom.XMLDesc", "err")) =>
            /\ pc[p] = "x_undefine" \/ Did(p, "dom.undefine")
            /\ ~Did(p, "vol.find") /\ ~Did(p, "vol.delete") /\ ~Did(p, "vol.path")
            /\ vol = snapVol(p)
            /\ DidWith(p, "dom.undefine", "ok") =>
                 /\ dom[Name(p)] = NoDom
                 /\ Finished(p) => out[p].res = "ok"
                 /\ \A v \in DiskVolsOf(snapDom(p)[Name(p)].disks) :
                      \A d \in DomNames : v \notin DiskVolsOf(dom[d].disks)

C38_Witness ==
    \E p \in SeqProcs :
        /\ IsDestroy(p) /\ Finished(p) /\ out[p].res = "ok"
        /\ DidWith(p, "dom.XMLDesc", "err") /\ DidWith(p, "dom.undefine", "ok")
        /\ \E v \in DiskVolsOf(snapDom(p)[Name(p)].disks) : vol[v].file # "none"

\* C39: in the disk stage the imaging command is issued exactly when the
\* probe `test -f` answered exit code 1; exit code 0 skips it; any other
\* exit code, or a probe that did not run to an exit code, fails the call
\* with no imaging command and no refresh of the pool.
C39_ImagingOnlyAfterExitOne ==
    \A p \in SeqProcs :
        IsDeploy(p) =>
            /\ Did(p, "qemu-img") => DidWith(p, "test -f", "rc1")
            /\ DidWith(p, "test -f", "rc1") =>
                 (pc[p] = "disk_qemu_img" \/ Did(p, "qemu-img"))
            /\ DidWith(p, "test -f", "rc0") => ~Did(p, "qemu-img")
            /\ (\E r \in ProbeFailures : DidWith(p, "test -f", r)) =>
                 /\ ~Did(p, "qemu-img") /\ ~Did(p, "pool.refresh")
                 /\ vol[DiskName(Name(p))] = snapVol(p)[DiskName(Name(p))]
                 /\ lv[p].diskRet = "none"
                 /\ IF Finished(p)
                    THEN out[p].res = "err"
                           /\ out[p].exc = Exc("RemoteCommandError", "disk")
                    ELSE pc[p] = "finally" /\ exc[p] = Exc("RemoteCommandError", "disk")

C39_Witness ==
    \E p \in SeqProcs :
        /\ IsDeploy(p) /\ Finished(p) /\ out[p].res = "err"
        /\ DidWith(p, "test -f", "rc2")
        /\ ~Did(p, "qemu-img") /\ ~Did(p, "pool.refresh")

\* ------------------------------------------- deploy, destroy, deploy another
\* One caller deploys d1, destroys it once the deploy has returned, and
\* deploys d2 with the same pool and base image once the destroy has
\* returned with every disk volume of d1 deleted.  Each call takes every
\* course it can take; a call that fails ends the sequence.
DeletedAll(p) ==
    \A v \in DiskVolsOf(snapDom(p)[Name(p)].disks) :
        \E i \in DOMAIN ops[p] : ops[p][i] = Op("vol.delete", v, "ok")

cycle_deploy_first ==
    /\ ncalls = 0
    /\ \E f \in Formats :
         StartCall(1, [kind |-> "deploy", name |-> "d1", fmt |-> f])

cycle_destroy ==
    /\ ncalls = 1 /\ out[1].res = "ok"
    /\ StartCall(1, [kind |-> "destroy", name |-> "d1", fmt |-> "qcow2"])

cycle_deploy_second ==
    /\ ncalls = 2 /\ out[1].res = "ok" /\ DeletedAll(1)
    /\ \E f \in Formats :
         StartCall(1, [kind |-> "deploy", name |-> "d2", fmt |-> f])

InitCycle ==
    /\ Init
    /\ dom = [d \in DomNames |-> NoDom]

NextCycle ==
    \/ cycle_deploy_first
    \/ cycle_destroy
    \/ cycle_deploy_second
    \/ connect_libvirt(1)
    \/ get_or_create_pool_lookup(1)
    \/ get_or_create_pool_activate(1)
    \/ get_or_create_pool_gid(1)
    \/ get_or_create_pool_define(1)
    \/ get_or_create_pool_build(1)
    \/ get_or_create_pool_autostart(1)
    \/ get_or_create_pool_create(1)
    \/ get_or_create_pool_undefine(1)
    \/ ensure_volume_lookup(1)
    \/ ensure_volume_download(1)
    \/ ensure_volume_gid(1)
    \/ ensure_volume_createXML(1)
    \/ ensure_volume_upload(1)
    \/ ensure_volume_send(1)
    \/ ensure_volume_finish(1)
    \/ ensure_volume_cleanup(1)
    \/ create_disk_probe(1)
    \/ create_disk_qemu_img(1)
    \/ create_disk_refresh(1)
    \/ install_lookup(1)
    \/ install_upload(1)
    \/ install_virt_install(1)
    \/ install_cleanup(1)
    \/ get_ip_preconditions(1)
    \/ get_ip_poll(1)
    \/ delete_vm_lookup(1)
    \/ delete_vm_destroy(1)
    \/ delete_vm_xml(1)
    \/ delete_vm_undefine(1)
    \/ delete_vm_find_volume(1)
    \/ delete_vm_delete_volume(1)
    \/ close_connection(1)

SpecCycle == InitCycle /\ [][NextCycle]_vars

\* The operations by which deploy makes a pool or a base volume.
Provisions ==
    {"pool.gid", "pool.define", "pool.build", "pool.autostart", "pool.create",
     "pool.activate", "download_file", "vol.gid", "vol.createXML", "vol.upload",
     "stream.send", "stream.finish"}

\* C40: once a deploy of d1 returned and the destroy of d1 that followed
\* returned with each of d1's disk volumes deleted, d1 is not defined and
\* d1.qcow2 does not exist, while the pool is the same active pool and the
\* base volume the same volume as before the destroy; the deploy of d2
\* that follows issues no operation that makes a pool or a base volume and
\* is handed the pool and the base volume the first deploy was handed.
C40_DestroyKeepsPoolAndBase ==
    /\ (ncalls = 2 /\ Finished(1) /\ out[1].res = "ok" /\ DeletedAll(1)) =>
         /\ dom["d1"] = NoDom
         /\ vol[DiskName("d1")] = NoVol
         /\ pool = snapPool(1) /\ pool.st = "active"
         /\ vol[BaseVol] = snapVol(1)[BaseVol] /\ vol[BaseVol].file # "none"
    /\ (ncalls = 3 /\ Started(1)) =>
         /\ \A i \in DOMAIN ops[1] : ops[1][i].op \notin Provisions
         /\ pool = snapPool(1) /\ pool.st = "active"
         /\ vol[BaseVol].gen = snapVol(1)[BaseVol].gen
         /\ vol[BaseVol].file = snapVol(1)[BaseVol].file /\ vol[BaseVol].file # "none"
         /\ lv[1].poolRet # 0 => (lv[1].poolFound /\ lv[1].poolRet = lv[1].prevPool)
         /\ lv[1].baseRet # 0 => (lv[1].baseFound /\ lv[1].baseRet = lv[1].prevBase)

C40_Witness ==
    /\ ncalls = 3 /\ Finished(1) /\ out[1].res = "ok"
    /\ call[1].name = "d2" /\ dom["d2"].st = "running"
    /\ dom["d1"] = NoDom /\ vol[DiskName("d1")] = NoVol
    /\ lv[1].baseFound /\ lv[1].poolFound
====
